---- MODULE Spec2Model ----
(***************************************************************************)
(* A state-machine model of the Melvin graph engine (melvin.c) and of its  *)
(* persistent container (melvin_m.c).                                      *)
(*                                                                         *)
(* Heap objects are modelled by their address: nh[p] is the Node struct at *)
(* address p, eh[q] the Edge struct at address q, and the                  *)
(* graph's lists hold addresses.  Address 0 is NULL.                       *)
(*                                                                         *)
(* C floats are modelled as binary floating-point numbers <<m, e>> (value  *)
(* m * 2^e) with a MantBits-bit mantissa, round-to-nearest-even and the    *)
(* exponent range of IEEE single precision (flush to zero below 2^-149).   *)
(***************************************************************************)
EXTENDS Integers, Sequences, FiniteSets, TLC

\* A C array built element by element: the function over 1 .. n, held as a
\* sequence of values
Array(f) == f \o <<>>

\* a local name for a value: Let([x \in {v} |-> e]) is e with x standing for v
Let(f) == f[CHOOSE x \in DOMAIN f : TRUE]

(***************************************************************************)
(* Floating point                                                          *)
(***************************************************************************)
MantBits == 15

MinExp == 0 - 149

Abs(n) == IF n < 0 THEN 0 - n ELSE n

Sgn(n) == IF n < 0 THEN 0 - 1 ELSE IF n = 0 THEN 0 ELSE 1

Max2(a, b) == IF a >= b THEN a ELSE b

Min2(a, b) == IF a <= b THEN a ELSE b

\* number of bits of n, 0 <= n < 2^31, by binary search
BitLen(n) ==
    Let([n16 \in {IF n >= 65536 THEN n \div 65536 ELSE n} |->
    Let([n8 \in {IF n16 >= 256 THEN n16 \div 256 ELSE n16} |->
    Let([n4 \in {IF n8 >= 16 THEN n8 \div 16 ELSE n8} |->
    Let([n2 \in {IF n4 >= 4 THEN n4 \div 4 ELSE n4} |->
        (IF n >= 65536 THEN 16 ELSE 0) + (IF n16 >= 256 THEN 8 ELSE 0)
        + (IF n8 >= 16 THEN 4 ELSE 0) + (IF n4 >= 4 THEN 2 ELSE 0)
        + (IF n2 >= 2 THEN 2 ELSE n2)])])])])

FZero == <<0, 0>>

\* the quotient by zero: a value no operation on floats is defined on
FUndefined == <<"undefined", "undefined">>

\* a \div 2^sh rounded to nearest, ties to even
RoundShift(a, sh) ==
    IF sh <= 0 THEN a
    ELSE
    Let([q \in {a \div (2 ^ sh)} |->
    Let([r \in {a % (2 ^ sh)} |->
    Let([half \in {2 ^ (sh - 1)} |->
        IF r > half \/ (r = half /\ q % 2 = 1) THEN q + 1 ELSE q])])])

\* The four primitives are evaluated by one recursive operator, Float, which
\* is defined after them; Value(v) is v, evaluated inside Float, and is what
\* a handler wraps its computation in.
RECURSIVE Float(_, _, _)

\* Normalise m * 2^e to a MantBits-bit mantissa (round to nearest even).
Norm(m, e) == Float("norm", m, e)

\* a + b
FAdd(a, b) == Float("add", a, b)

\* a / b
FDiv(a, b) == Float("div", a, b)

\* a < b
FLt(a, b) == Float("lt", a, b)

Value(v) == Float("value", v, 0)

Float(op, a, b) ==
    CASE op = "norm" ->
             IF a = 0 THEN FZero
             ELSE Let([m \in {Abs(a)} |->
                  Let([bl \in {BitLen(m)} |->
                  Let([sh \in {bl - MantBits} |->
                  Let([q \in {RoundShift(m, sh)} |->
                      IF b + bl - 1 < MinExp THEN FZero
                      ELSE IF sh < 0 THEN <<a * (2 ^ (0 - sh)), b + sh>>
                      ELSE IF q = 2 ^ MantBits
                      THEN <<Sgn(a) * (2 ^ (MantBits - 1)), b + sh + 1>>
                      ELSE <<Sgn(a) * q, b + sh>>])])])])
      [] op = "add" ->
             IF a[1] = 0 THEN b
             ELSE IF b[1] = 0 THEN a
             ELSE Let([hi \in {IF a[2] >= b[2] THEN a ELSE b} |->
                  Let([lo \in {IF a[2] >= b[2] THEN b ELSE a} |->
                  Let([d \in {hi[2] - lo[2]} |->
                      IF d > MantBits THEN hi
                      ELSE Norm(hi[1] * (2 ^ d) + lo[1], lo[2])])])])
      [] op = "lt" ->
             IF Sgn(a[1]) # Sgn(b[1]) THEN Sgn(a[1]) < Sgn(b[1])
             ELSE IF a[1] = 0 THEN FALSE
             ELSE IF a[1] > 0 THEN (a[2] < b[2]) \/ (a[2] = b[2] /\ a[1] < b[1])
             ELSE (a[2] > b[2]) \/ (a[2] = b[2] /\ a[1] < b[1])
      \* quotient with one guard bit and a sticky bit, then rounded by Norm
      [] op = "div" ->
             IF b[1] = 0 THEN FUndefined
             ELSE IF a[1] = 0 THEN FZero
             ELSE Let([num \in {Abs(a[1]) * (2 ^ (MantBits + 1))} |->
                  Let([q \in {num \div Abs(b[1])} |->
                  Let([sticky \in {IF num % Abs(b[1]) = 0 THEN 0 ELSE 1} |->
                      Norm(Sgn(a[1]) * Sgn(b[1]) * (2 * q + sticky),
                           a[2] - b[2] - MantBits - 2)])])])
      [] op = "value" -> a

FInt(n) == Norm(n, 0)

FOne == <<2 ^ (MantBits - 1), 1 - MantBits>>

FNeg(a) == <<0 - a[1], a[2]>>

FAbs(a) == <<Abs(a[1]), a[2]>>

FSub(a, b) == FAdd(a, FNeg(b))

FMul(a, b) == Norm(a[1] * b[1], a[2] + b[2])

FGt(a, b) == FLt(b, a)

FLe(a, b) == ~FLt(b, a)

FGe(a, b) == ~FLt(a, b)

FPos(a) == a[1] > 0

FMax(a, b) == IF FLt(a, b) THEN b ELSE a

FMin(a, b) == IF FLt(b, a) THEN b ELSE a

\* (size_t) conversion of a non-negative float: truncation
FToInt(a) ==
    IF a[1] <= 0 THEN 0
    ELSE IF a[2] >= 0 THEN a[1] * (2 ^ a[2])
    ELSE IF 0 - a[2] > MantBits THEN 0
    ELSE a[1] \div (2 ^ (0 - a[2]))

\* decimal literal num/den
FRat(num, den) == FDiv(FInt(num), FInt(den))

\* |a - b| <= 2^-8 * max(|a|, |b|): equality up to accumulated rounding
FNear(a, b) ==
    Let([d \in {FAbs(FSub(a, b))} |->
    Let([s \in {FMax(FAbs(a), FAbs(b))} |->
        d[1] = 0 \/ FLe(d, FMul(s, <<2 ^ (MantBits - 1), 0 - 8 - (MantBits - 1)>>))])])

(***************************************************************************)
(* Machine state threaded through the C functions.                         *)
(*   nh, eh          heap of Node / Edge structs, indexed by address       *)
(*   nodes, edges    g->nodes, g->edges (sequences of addresses)           *)
(*   id_counter      the static counter of node_create                     *)
(*   alloc_n         number of allocation requests made by this handler    *)
(*   fail_at         the request that the allocator refuses (0: none)      *)
(***************************************************************************)
NULL == 0

Byte == 0 .. 255

\* An allocation request: counted, and refused when it is request fail_at.
Alloc(st) == [st EXCEPT !.alloc_n = @ + 1]

AllocFails(st) == st.fail_at = st.alloc_n + 1

\* a handler starts: its requests are counted from 0, request k is refused
Arm(st, k) == [st EXCEPT !.alloc_n = 0, !.fail_at = k]

\* was a request of the handler refused
Refused(st) == st.fail_at # 0 /\ st.alloc_n >= st.fail_at

\* the handler returns: a request number that was never reached is forgotten
Disarm(st) == [st EXCEPT !.fail_at = IF Refused(st) THEN @ ELSE 0]

RECURSIVE IdBytesFrom(_, _)
IdBytesFrom(c, i) ==
    IF i = 0 THEN <<>> ELSE Append(IdBytesFrom(c \div 256, i - 1), c % 256)

\* melvin.c node_create: 8 big-endian bytes of the counter, then NUL
IdBytes(c) == Append(IdBytesFrom(c, 8), 0)

InitialEdgeListCapacity == 4

InitialWindowCapacity == 4

NewNode(id_counter, payload_data) ==
    [ id |-> IdBytes(id_counter),
      payload |-> payload_data,
      activation_strength |-> FZero,
      weight |-> FZero,
      bias |-> FZero,
      abstraction_level |-> 0,
      outgoing_edges |-> <<>>,
      outgoing_capacity |-> InitialEdgeListCapacity,
      incoming_edges |-> <<>>,
      incoming_capacity |-> InitialEdgeListCapacity,
      outgoing_weight_sum |-> FZero,
      incoming_weight_sum |-> FZero,
      weight_change_capacity |-> InitialWindowCapacity,
      weight_change_count |-> 0,
      weight_change_index |-> 0,
      recent_weight_changes |-> Array([i \in 1 .. InitialWindowCapacity |-> FZero]),
      change_rate_avg |-> FZero,
      live |-> TRUE ]

\* Result of a function that returns a pointer (or a value) and changes state
Ret(st, r) == [st |-> st, r |-> r]

\* Sequencing of statements: x, the state a statement starts from, is computed
\* before the statement s
Then(x, s) == IF DOMAIN x = {} THEN s ELSE s

\* The for loops below run their body for i = lo .. hi in increasing order; the
\* index range is halved at each level only to keep the evaluation shallow.
Mid(lo, hi) == (lo + hi) \div 2

\* node_create: returns the address of the new node, or NULL
node_create(st, payload_data) ==
    IF AllocFails(st) THEN Ret(Alloc(st), NULL)
    ELSE Let([s1 \in {Alloc(st)} |->
             Ret([s1 EXCEPT !.nh = Append(@, NewNode(s1.id_counter, payload_data)),
                            !.id_counter = @ + 1],
                 Len(s1.nh) + 1)])

node_free(st, n) == IF n = NULL THEN st ELSE [st EXCEPT !.nh[n].live = FALSE]

\* edge_create: returns the address of the new edge, or NULL
edge_create(st, from, to, direction) ==
    IF from = NULL \/ to = NULL THEN Ret(st, NULL)
    ELSE IF AllocFails(st) THEN Ret(Alloc(st), NULL)
    ELSE Let([s1 \in {Alloc(st)} |->
             Ret([s1 EXCEPT !.eh = Append(@, [from_node |-> from, to_node |-> to,
                                              direction |-> direction,
                                              activation |-> FALSE,
                                              weight |-> FZero, live |-> TRUE])],
                 Len(s1.eh) + 1)])

edge_free(st, e) == IF e = NULL THEN st ELSE [st EXCEPT !.eh[e].live = FALSE]

GrowCapacity(cap) == IF cap = 0 THEN 1 ELSE cap * 2

\* graph_add_node: Ret(state, success)
graph_add_node(st, node) ==
    IF node = NULL THEN Ret(st, FALSE)
    ELSE IF Len(st.nodes) >= st.node_capacity
    THEN IF AllocFails(st) THEN Ret(Alloc(st), FALSE)
         ELSE Ret([Alloc(st) EXCEPT !.node_capacity = GrowCapacity(@),
                                    !.nodes = Append(@, node)], TRUE)
    ELSE Ret([st EXCEPT !.nodes = Append(@, node)], TRUE)

node_add_outgoing_weight(st, n, w) ==
    [st EXCEPT !.nh[n].outgoing_weight_sum = FAdd(@, w)]

node_add_incoming_weight(st, n, w) ==
    [st EXCEPT !.nh[n].incoming_weight_sum = FAdd(@, w)]

node_update_outgoing_weight_sum(st, n, old_weight, new_weight) ==
    [st EXCEPT !.nh[n].outgoing_weight_sum = FAdd(FSub(@, old_weight), new_weight)]

node_update_incoming_weight_sum(st, n, old_weight, new_weight) ==
    [st EXCEPT !.nh[n].incoming_weight_sum = FAdd(FSub(@, old_weight), new_weight)]

\* graph_add_edge, third part: link into to->incoming_edges
graph_add_edge_incoming(st, edge, to) ==
    Let([grow \in {Len(st.nh[to].incoming_edges) >= st.nh[to].incoming_capacity} |->
    Let([s1 \in {IF grow THEN Alloc(st) ELSE st} |->
        IF grow /\ AllocFails(st) THEN Ret(s1, FALSE)
        ELSE Ret(node_add_incoming_weight(
                   [s1 EXCEPT !.nh[to].incoming_capacity =
                                  IF grow THEN GrowCapacity(@) ELSE @,
                              !.nh[to].incoming_edges = Append(@, edge)],
                   to, s1.eh[edge].weight), TRUE)])])

\* graph_add_edge, second part: link into from->outgoing_edges
graph_add_edge_outgoing(st, edge, from, to) ==
    Let([grow \in {Len(st.nh[from].outgoing_edges) >= st.nh[from].outgoing_capacity} |->
    Let([s1 \in {IF grow THEN Alloc(st) ELSE st} |->
        IF grow /\ AllocFails(st) THEN Ret(s1, FALSE)
        ELSE graph_add_edge_incoming(
               node_add_outgoing_weight(
                   [s1 EXCEPT !.nh[from].outgoing_capacity =
                                  IF grow THEN GrowCapacity(@) ELSE @,
                              !.nh[from].outgoing_edges = Append(@, edge)],
                   from, s1.eh[edge].weight), edge, to)])])

\* graph_add_edge: Ret(state, success)
graph_add_edge(st, edge, from, to) ==
    IF edge = NULL \/ from = NULL \/ to = NULL THEN Ret(st, FALSE)
    ELSE Let([grow \in {Len(st.edges) >= st.edge_capacity} |->
         Let([s1 \in {IF grow THEN Alloc(st) ELSE st} |->
             IF grow /\ AllocFails(st) THEN Ret(s1, FALSE)
             ELSE graph_add_edge_outgoing(
                    [s1 EXCEPT !.edge_capacity = IF grow THEN GrowCapacity(@) ELSE @,
                               !.edges = Append(@, edge)],
                    edge, from, to)])])

(***************************************************************************)
(* Local measurements                                                      *)
(***************************************************************************)
\* compute_adaptive_epsilon: range * 0.001, 0 for a non-positive range
compute_adaptive_epsilon(range) ==
    IF ~FPos(range) THEN FZero ELSE FMul(range, FRat(1, 1000))

node_get_local_outgoing_weight_avg(st, n) ==
    IF n = NULL \/ Len(st.nh[n].outgoing_edges) = 0 THEN FZero
    ELSE FDiv(st.nh[n].outgoing_weight_sum, FInt(Len(st.nh[n].outgoing_edges)))

node_get_local_incoming_weight_avg(st, n) ==
    IF n = NULL \/ Len(st.nh[n].incoming_edges) = 0 THEN FZero
    ELSE FDiv(st.nh[n].incoming_weight_sum, FInt(Len(st.nh[n].incoming_edges)))

node_local_avg(st, n) ==
    FDiv(FAdd(node_get_local_outgoing_weight_avg(st, n),
              node_get_local_incoming_weight_avg(st, n)), FInt(2))

\* qsort(..., compare_float) / the bubble sort of compute_median_adaptive:
\* the element of rank k is the one with k - 1 elements before it in the order
SortF(s) ==
    LET Before(i, j) == FLt(s[i], s[j]) \/ (s[i] = s[j] /\ i < j) IN
    LET Rank(j) == Cardinality({i \in 1 .. Len(s) : Before(i, j)}) + 1 IN
        Array([k \in 1 .. Len(s) |-> s[CHOOSE j \in 1 .. Len(s) : Rank(j) = k]])

\* s[lo] + ... + s[hi] added to acc from left to right (the range is halved
\* to keep the evaluation shallow; the order of the additions is unchanged)
RECURSIVE SumRange(_, _, _, _)
SumRange(s, acc, lo, hi) ==
    IF lo > hi THEN acc
    ELSE IF lo = hi THEN FAdd(acc, s[lo])
    ELSE SumRange(s, SumRange(s, acc, lo, (lo + hi) \div 2), (lo + hi) \div 2 + 1, hi)

SumF(s) == SumRange(s, FZero, 1, Len(s))

compute_median_adaptive(values) ==
    Let([count \in {Len(values)} |->
    Let([sorted \in {SortF(values)} |->
        IF count = 0 THEN FZero
        ELSE IF count % 2 = 0
        THEN FDiv(FAdd(sorted[count \div 2], sorted[count \div 2 + 1]), FInt(2))
        ELSE sorted[count \div 2 + 1]])])

compute_percentile_from_array(values, percentile) ==
    Let([count \in {Len(values)} |->
    Let([raw \in {FToInt(FMul(FRat(percentile, 100), FInt(count - 1)))} |->
    Let([index \in {IF raw >= count THEN count - 1 ELSE raw} |->
        IF count = 0 \/ percentile < 0 \/ percentile > 100 THEN FZero
        ELSE SortF(values)[index + 1]])])])

\* the window size node_adapt_rolling_window chooses for the recorded changes
\* (at least one): 4 when their average is above their median, 8 when it
\* is above half the median, 16 otherwise
window_size_for(window) ==
    Let([cnt \in {Len(window)} |->
    Let([avg_change \in {FDiv(SumF(window), FInt(cnt))} |->
    Let([median_change \in {SortF(window)[cnt \div 2 + 1]} |->
        IF cnt > 1
        THEN IF FGt(avg_change, median_change) THEN 4
             ELSE IF FGt(avg_change, FDiv(median_change, FInt(2))) THEN 8
             ELSE 16
        ELSE IF FGt(avg_change, window[1]) THEN 4 ELSE 8])])])

\* node_adapt_rolling_window: resize the rolling window to 4, 8 or 16 entries
node_adapt_rolling_window(st, n) ==
    Let([nd \in {st.nh[n]} |->
    Let([cnt \in {nd.weight_change_count} |->
    Let([window \in {SubSeq(nd.recent_weight_changes, 1, cnt)} |->
    Let([avg_change \in {FDiv(SumF(window), FInt(cnt))} |->
    Let([optimal_size \in {window_size_for(window)} |->
    Let([copy_count \in {Min2(cnt, optimal_size)} |->
    Let([cap \in {nd.weight_change_capacity} |->
    Let([new_window \in {Array([i \in 1 .. optimal_size |->
            IF i <= copy_count
            THEN nd.recent_weight_changes[
                    ((nd.weight_change_index - copy_count + (i - 1) + cap) % cap) + 1]
            ELSE FZero])} |->
        IF cnt = 0 THEN st
        ELSE IF optimal_size = cap
        THEN [st EXCEPT !.nh[n].change_rate_avg = avg_change]
        ELSE [st EXCEPT !.nh[n].change_rate_avg = avg_change,
                        !.nh[n].recent_weight_changes = new_window,
                        !.nh[n].weight_change_capacity = optimal_size,
                        !.nh[n].weight_change_count = copy_count,
                        !.nh[n].weight_change_index = copy_count % optimal_size]])])])])])])])])

\* weight / (weight + local_avg + epsilon), 0 when weight + local_avg is 0
context_rate(st, n) ==
    Let([w \in {st.nh[n].weight} |->
    Let([local_avg \in {node_local_avg(st, n)} |->
        IF FPos(FAdd(w, local_avg))
        THEN FDiv(w, FAdd(FAdd(w, local_avg), compute_adaptive_epsilon(FMax(w, local_avg))))
        ELSE FZero])])

\* node_get_adaptive_learning_rate: Ret(state, rate)
node_get_adaptive_learning_rate(st, n) ==
    IF n = NULL THEN Ret(st, FZero)
    ELSE
    Let([s1 \in {IF st.nh[n].weight_change_count >= st.nh[n].weight_change_capacity
        THEN node_adapt_rolling_window(st, n) ELSE st} |->
    Let([nd \in {s1.nh[n]} |->
    Let([window \in {SubSeq(nd.recent_weight_changes, 1, nd.weight_change_count)} |->
    Let([valid_count \in {Cardinality({i \in 1 .. Len(window) : window[i][1] # 0})} |->
    Let([median_rate \in {compute_median_adaptive(window)} |->
    Let([history_weight \in {FDiv(FInt(nd.weight_change_count),
             FAdd(FInt(nd.weight_change_count), FOne))} |->
        IF valid_count = 0 THEN Ret(s1, context_rate(s1, n))
        ELSE Ret(s1, FAdd(FMul(median_rate, history_weight),
                          FMul(context_rate(s1, n), FSub(FOne, history_weight))))])])])])])])

\* node_update_weight_local
node_update_weight_local(st, n) ==
    IF n = NULL THEN st
    ELSE
    Let([old_weight \in {st.nh[n].weight} |->
    Let([rr \in {node_get_adaptive_learning_rate(st, n)} |->
    Let([rate \in {rr.r} |->
    Let([s1 \in {rr.st} |->
    Let([new_weight \in {FAdd(FMul(s1.nh[n].weight, FSub(FOne, rate)),
             FMul(s1.nh[n].activation_strength, rate))} |->
        IF FPos(old_weight)
        THEN
    Let([change \in {FAbs(FDiv(FSub(new_weight, old_weight), old_weight))} |->
             [s1 EXCEPT !.nh[n].weight = new_weight,
                        !.nh[n].recent_weight_changes[s1.nh[n].weight_change_index + 1] = change,
                        !.nh[n].weight_change_index = (@ + 1) % s1.nh[n].weight_change_capacity]])
        ELSE [s1 EXCEPT !.nh[n].weight = new_weight]])])])])])

\* the learning rate of edge_update_weight_local
edge_learning_rate(st, e, node_rate) ==
    Let([ed \in {st.eh[e]} |->
        IF FPos(node_rate) THEN node_rate
        ELSE IF FPos(ed.weight) THEN FDiv(ed.weight, FAdd(ed.weight, FOne))
        ELSE IF FPos(st.nh[ed.from_node].activation_strength)
        THEN FMul(st.nh[ed.from_node].activation_strength, FRat(1, 10))
        ELSE FRat(1, 10)])

\* edge_update_weight_local: new weight, and the cached sums of both endpoints
edge_update_weight_local(st, e) ==
    IF e = NULL THEN st
    ELSE
    Let([rr \in {node_get_adaptive_learning_rate(st, st.eh[e].from_node)} |->
    Let([s1 \in {rr.st} |->
    Let([ed \in {s1.eh[e]} |->
    Let([old_weight \in {ed.weight} |->
    Let([rate \in {edge_learning_rate(s1, e, rr.r)} |->
    Let([target \in {s1.nh[ed.from_node].activation_strength} |->
    Let([new_weight \in {FAdd(FMul(old_weight, FSub(FOne, rate)), FMul(target, rate))} |->
    Let([s2 \in {[s1 EXCEPT !.eh[e].weight = new_weight]} |->
    Let([s3 \in {node_update_outgoing_weight_sum(s2, ed.from_node, old_weight, new_weight)} |->
        node_update_incoming_weight_sum(s3, ed.to_node, old_weight, new_weight)])])])])])])])])])

(***************************************************************************)
(* Matching and activation                                                 *)
(***************************************************************************)
\* byte_similarity as it would be if the compared bytes were not looked at
byte_similarity_blind(payload, pattern) ==
    IF Min2(Len(payload), Len(pattern)) = 0 THEN FZero ELSE FOne

\* matching bytes over min(sizes), as a float; 0 when either side is empty
byte_similarity(payload, pattern) ==
    Let([check_size \in {Min2(Len(payload), Len(pattern))} |->
    Let([match_bytes \in {Cardinality({i \in 1 .. check_size : payload[i] = pattern[i]})} |->
        IF check_size = 0 THEN FZero ELSE FDiv(FInt(match_bytes), FInt(check_size))])])

\* accumulate <<connection_match, connection_weight>> over a list of edges,
\* in list order; connected nodes without payload are skipped
connection_accumulate(st, elist, outgoing, pattern, acc) ==
    LET Connected(e) == IF outgoing THEN st.eh[e].to_node ELSE st.eh[e].from_node IN
    Let([used \in {SelectSeq(elist, LAMBDA e : Len(st.nh[Connected(e)].payload) > 0)} |->
    Let([matches \in {Array([k \in 1 .. Len(used) |->
            FMul(byte_similarity(st.nh[Connected(used[k])].payload, pattern),
                 st.eh[used[k]].weight)])} |->
    Let([weights \in {Array([k \in 1 .. Len(used) |-> st.eh[used[k]].weight])} |->
        <<SumRange(matches, acc[1], 1, Len(used)), SumRange(weights, acc[2], 1, Len(used))>>])])])

\* node_calculate_match_strength
node_calculate_match_strength(st, n, pattern) ==
    IF n = NULL THEN FZero
    ELSE
    Let([nd \in {st.nh[n]} |->
    Let([has_direct \in {Len(nd.payload) > 0 /\ Len(pattern) > 0} |->
    Let([match_score \in {IF has_direct THEN byte_similarity(nd.payload, pattern) ELSE FZero} |->
    Let([acc_in \in {connection_accumulate(st, nd.incoming_edges, FALSE, pattern,
                              <<FZero, FZero>>)} |->
    Let([acc \in {connection_accumulate(st, nd.outgoing_edges, TRUE, pattern, acc_in)} |->
    Let([connection_weight \in {acc[2]} |->
    Let([connection_match \in {IF FPos(connection_weight) THEN FDiv(acc[1], connection_weight)
        ELSE acc[1]} |->
    Let([local_avg \in {FDiv(FAdd(node_get_local_incoming_weight_avg(st, n),
                  node_get_local_outgoing_weight_avg(st, n)), FInt(2))} |->
    Let([direct_weight \in {IF FPos(local_avg) THEN FDiv(nd.weight, FAdd(nd.weight, local_avg))
        ELSE IF FPos(nd.weight) THEN FDiv(nd.weight, FAdd(nd.weight, FOne))
        ELSE FZero} |->
    Let([combined_match \in {IF has_direct /\ FPos(connection_weight)
        THEN FAdd(FMul(match_score, direct_weight),
                  FMul(connection_match, FSub(FOne, direct_weight)))
        ELSE IF has_direct THEN match_score
        ELSE IF FPos(connection_weight) THEN connection_match
        ELSE FZero} |->
        IF FPos(nd.weight) /\ FPos(local_avg)
        THEN FMul(combined_match, FAdd(FOne, FDiv(nd.weight, FAdd(nd.weight, local_avg))))
        ELSE combined_match])])])])])])])])])])

\* edge_compute_pattern_similarity
edge_compute_pattern_similarity(st, node1, node2) ==
    IF node1 = NULL \/ node2 = NULL THEN FZero
    ELSE IF Len(st.nh[node1].payload) = 0 \/ Len(st.nh[node2].payload) = 0 THEN FZero
    ELSE FDiv(FAdd(node_calculate_match_strength(st, node1, st.nh[node2].payload),
                   node_calculate_match_strength(st, node2, st.nh[node1].payload)),
              FInt(2))

MinSet(S) == CHOOSE x \in S : \A y \in S : x <= y

MaxSet(S) == CHOOSE x \in S : \A y \in S : x >= y

\* index of the first element of s satisfying P, 0 if none
FirstIndex(s, P(_)) ==
    Let([hits \in {{i \in 1 .. Len(s) : P(s[i])}} |->
        IF hits = {} THEN 0 ELSE MinSet(hits)])

\* node_find_edge_to: first outgoing edge of from that ends at to, or NULL
node_find_edge_to(st, from, to) ==
    IF from = NULL \/ to = NULL THEN NULL
    ELSE LET Hit(e) == st.eh[e].to_node = to IN
         Let([k \in {FirstIndex(st.nh[from].outgoing_edges, Hit)} |->
             IF k = 0 THEN NULL ELSE st.nh[from].outgoing_edges[k]])

\* the primary-path threshold of edge_transform_activation (local_avg > 0)
primary_threshold(st, from, local_avg) ==
    Let([out \in {st.nh[from].outgoing_edges} |->
    Let([edge_weights \in {Array([i \in 1 .. Len(out) |-> FDiv(st.eh[out[i]].weight, local_avg)])} |->
    Let([non_zero_weights \in {SelectSeq(edge_weights, FPos)} |->
    Let([cnt \in {Len(non_zero_weights)} |->
        IF Len(out) = 0 THEN FOne
        ELSE IF cnt > 0
        THEN Let([p75 \in {compute_percentile_from_array(non_zero_weights, 75)} |->
             Let([range \in {IF cnt > 1
                 THEN FSub(compute_percentile_from_array(non_zero_weights, 100),
                           compute_percentile_from_array(non_zero_weights, 0))
                 ELSE non_zero_weights[1]} |->
                 FAdd(FOne, FMax(p75, compute_adaptive_epsilon(range)))])])
        ELSE FAdd(FOne, compute_adaptive_epsilon(local_avg))])])])])

\* edge_transform_activation
edge_transform_activation(st, e, input_activation) ==
    IF e = NULL THEN FZero
    ELSE
    Let([ed \in {st.eh[e]} |->
    Let([base \in {FMul(ed.weight, input_activation)} |->
    Let([similarity \in {edge_compute_pattern_similarity(st, ed.from_node, ed.to_node)} |->
    Let([local_avg \in {node_local_avg(st, ed.from_node)} |->
    Let([boost_factor \in {IF FPos(local_avg)
        THEN FMul(similarity, FDiv(local_avg, FAdd(local_avg, FOne)))
        ELSE similarity} |->
    Let([t1 \in {IF FGt(similarity, IF FPos(local_avg) THEN local_avg ELSE FZero)
        THEN FMul(base, FAdd(FOne, boost_factor))
        ELSE base} |->
    Let([out_avg \in {node_get_local_outgoing_weight_avg(st, ed.from_node)} |->
        IF ~FPos(out_avg) THEN t1
        ELSE
        Let([edge_relative \in {FDiv(ed.weight, out_avg)} |->
        Let([threshold \in {primary_threshold(st, ed.from_node, out_avg)} |->
            IF FGt(edge_relative, threshold)
            THEN FMul(t1, FAdd(FOne, FDiv(FSub(edge_relative, threshold),
                                          FAdd(edge_relative, FOne))))
            ELSE t1])])])])])])])])])

\* sum of the transformed inputs and of the weights over the incoming edges
activation_inputs(st, elist) ==
    Let([inputs \in {Array([k \in 1 .. Len(elist) |->
            edge_transform_activation(st, elist[k],
                st.nh[st.eh[elist[k]].from_node].activation_strength)])} |->
    Let([weights \in {Array([k \in 1 .. Len(elist) |-> st.eh[elist[k]].weight])} |->
        <<SumRange(inputs, FZero, 1, Len(elist)), SumRange(weights, FZero, 1, Len(elist))>>])])

\* the self-regulating bias of node_compute_activation_strength
node_bias(st, n) ==
    Let([w \in {st.nh[n].weight} |->
    Let([local_avg \in {node_get_local_incoming_weight_avg(st, n)} |->
        IF FPos(FAdd(w, local_avg)) THEN FDiv(w, FAdd(w, local_avg))
        ELSE IF FPos(w) THEN FDiv(w, FAdd(w, FOne))
        ELSE FZero])])

\* node_compute_activation_strength: Ret(state with node->bias set, activation)
node_compute_activation_strength(st, n) ==
    IF n = NULL THEN Ret(st, FZero)
    ELSE
    Let([acc \in {activation_inputs(st, st.nh[n].incoming_edges)} |->
    Let([input_sum \in {IF FPos(acc[2]) THEN FDiv(acc[1], acc[2]) ELSE acc[1]} |->
    Let([bias \in {node_bias(st, n)} |->
    Let([raw_activation \in {FAdd(input_sum, bias)} |->
        Ret([st EXCEPT !.nh[n].bias = bias],
            FDiv(raw_activation, FAdd(FOne, raw_activation)))])])])])

(***************************************************************************)
(* Hierarchy formation                                                     *)
(***************************************************************************)
\* node_combine_payloads: Ret(state, address of the combined node or NULL)
node_combine_payloads(st, node1, node2) ==
    IF node1 = NULL \/ node2 = NULL THEN Ret(st, NULL)
    ELSE IF AllocFails(st) THEN Ret(Alloc(st), NULL)
    ELSE
    Let([cr \in {node_create(Alloc(st), st.nh[node1].payload \o st.nh[node2].payload)} |->
    Let([c \in {cr.r} |->
    Let([s1 \in {[cr.st EXCEPT
           !.nh[c].abstraction_level =
               Max2(st.nh[node1].abstraction_level, st.nh[node2].abstraction_level) + 1,
           !.nh[c].weight =
               FDiv(FAdd(st.nh[node1].weight, st.nh[node2].weight), FInt(2))]} |->
    Let([ar \in {node_compute_activation_strength(s1, c)} |->
        IF c = NULL THEN cr
        ELSE Ret([ar.st EXCEPT !.nh[c].activation_strength = ar.r], c)])])])])

\* one edge of node_transfer_incoming_to_hierarchy: copy edge i of list
\* `outgoing` of node src onto the combined node
transfer_edge(st, src, outgoing, i, combined) ==
    Let([elist \in {IF outgoing THEN st.nh[src].outgoing_edges ELSE st.nh[src].incoming_edges} |->
    Let([old_edge \in {st.eh[elist[i]]} |->
    Let([from \in {IF outgoing THEN combined ELSE old_edge.from_node} |->
    Let([to \in {IF outgoing THEN old_edge.to_node ELSE combined} |->
    Let([cr \in {edge_create(st, from, to, TRUE)} |->
    Let([s1 \in {[cr.st EXCEPT !.eh[cr.r].weight = old_edge.weight]} |->
        IF i > Len(elist) THEN st
        ELSE IF cr.r = NULL THEN cr.st
        ELSE graph_add_edge(s1, cr.r, from, to).st])])])])])])

RECURSIVE transfer_edges(_, _, _, _, _, _)
transfer_edges(st, src, outgoing, lo, hi, combined) ==
    Then(st,
    IF lo > hi THEN st
    ELSE IF lo = hi THEN transfer_edge(st, src, outgoing, lo, combined)
    ELSE transfer_edges(transfer_edges(st, src, outgoing, lo, Mid(lo, hi), combined),
                        src, outgoing, Mid(lo, hi) + 1, hi, combined))

\* node_transfer_incoming_to_hierarchy without its third loop: the outgoing
\* edges of node2 are not copied
node_transfer_incoming_only(st, node1, node2, combined) ==
    IF node1 = NULL \/ node2 = NULL \/ combined = NULL THEN st
    ELSE
    Let([s1 \in {transfer_edges(st, node1, FALSE, 1, Len(st.nh[node1].incoming_edges),
                       combined)} |->
        Then(s1, transfer_edges(s1, node2, FALSE, 1, Len(s1.nh[node2].incoming_edges),
                                combined))])

\* node_transfer_incoming_to_hierarchy
node_transfer_incoming_to_hierarchy(st, node1, node2, combined) ==
    IF node1 = NULL \/ node2 = NULL \/ combined = NULL THEN st
    ELSE
    Let([s1 \in {transfer_edges(st, node1, FALSE, 1, Len(st.nh[node1].incoming_edges),
                       combined)} |->
    Let([s2 \in {transfer_edges(s1, node2, FALSE, 1, Len(s1.nh[node2].incoming_edges),
                       combined)} |->
        Then(s1, Then(s2,
            transfer_edges(s2, node2, TRUE, 1, Len(s2.nh[node2].outgoing_edges),
                           combined)))])])

(***************************************************************************)
(* Edge formation: co-activation                                           *)
(***************************************************************************)
\* the dominance test of wave_create_edges_from_coactivation
should_form_hierarchy(st, from, existing) ==
    Let([local_avg \in {node_get_local_outgoing_weight_avg(st, from)} |->
    LET Rel(w) == IF FPos(local_avg) THEN FDiv(w, local_avg) ELSE w IN
    Let([others \in {{e \in {st.nh[from].outgoing_edges[j] :
                  j \in 1 .. Len(st.nh[from].outgoing_edges)} : e # existing}} |->
    Let([edge_relative \in {Rel(st.eh[existing].weight)} |->
        IF FPos(local_avg)
        THEN FPos(edge_relative)
             /\ \A o \in others : ~FPos(Rel(st.eh[o].weight))
                                  \/ FGt(edge_relative, Rel(st.eh[o].weight))
        ELSE FPos(st.eh[existing].weight)])])])

\* hierarchy_exists as it would be if the existing combination were never found
hierarchy_exists_never(st, from, to) == FALSE

\* is there an outgoing edge of from to a node whose payload is from ++ to
hierarchy_exists(st, from, to) ==
    Let([expected \in {st.nh[from].payload \o st.nh[to].payload} |->
        \E j \in 1 .. Len(st.nh[from].outgoing_edges) :
            Let([candidate \in {st.eh[st.nh[from].outgoing_edges[j]].to_node} |->
                Len(expected) > 0 /\ st.nh[candidate].payload = expected])])

\* the existing-edge branch: strengthen, then let a hierarchy node emerge
coactivation_strengthen(st, from, to, existing) ==
    Let([old_weight \in {st.eh[existing].weight} |->
    Let([s1 \in {edge_update_weight_local([st EXCEPT !.eh[existing].activation = TRUE],
                                 existing)} |->
    Let([cr \in {node_combine_payloads(s1, from, to)} |->
    Let([ar \in {graph_add_node(cr.st, cr.r)} |->
        IF FGt(s1.eh[existing].weight, old_weight)
           /\ should_form_hierarchy(s1, from, existing)
           /\ ~hierarchy_exists(s1, from, to)
        THEN IF cr.r # NULL /\ ar.r
             THEN node_transfer_incoming_to_hierarchy(ar.st, from, to, cr.r)
             ELSE ar.st
        ELSE s1])])])])

\* the new-edge branch: bootstrap weight, update, then add to the graph
coactivation_create(st, from, to) ==
    Let([cr \in {edge_create(st, from, to, TRUE)} |->
    Let([e \in {cr.r} |->
    Let([s1 \in {[cr.st EXCEPT
           !.eh[e].activation = TRUE,
           !.eh[e].weight =
               IF FPos(st.nh[from].activation_strength)
               THEN FMul(st.nh[from].activation_strength, FRat(1, 10))
               ELSE FRat(1, 10)]} |->
        IF e = NULL THEN cr.st
        ELSE graph_add_edge(edge_update_weight_local(s1, e), e, from, to).st])])])

\* pair i of wave_create_edges_from_coactivation
coactivation_pair(st, activated_nodes, i) ==
    Let([from \in {activated_nodes[i]} |->
    Let([to \in {activated_nodes[i + 1]} |->
    Let([existing \in {node_find_edge_to(st, from, to)} |->
        IF from = NULL \/ to = NULL THEN st
        ELSE IF existing # NULL THEN coactivation_strengthen(st, from, to, existing)
        ELSE coactivation_create(st, from, to)])])])

RECURSIVE coactivation_loop(_, _, _, _)
coactivation_loop(st, activated_nodes, lo, hi) ==
    Then(st,
    IF lo > hi THEN st
    ELSE IF lo = hi THEN coactivation_pair(st, activated_nodes, lo)
    ELSE coactivation_loop(coactivation_loop(st, activated_nodes, lo, Mid(lo, hi)),
                           activated_nodes, Mid(lo, hi) + 1, hi))

wave_create_edges_from_coactivation(st, activated_nodes) ==
    IF Len(activated_nodes) < 2 THEN st
    ELSE coactivation_loop(st, activated_nodes, 1, Len(activated_nodes) - 1)

(***************************************************************************)
(* Exploration from the seed nodes                                         *)
(* The scratch arrays of the searches (wave fronts, visited sets, priority *)
(* arrays) are taken to be allocated successfully.                         *)
(***************************************************************************)
node_payload_exact_match(st, n, pattern) ==
    n # NULL /\ st.nh[n].payload = pattern

\* node_find_via_outgoing: first outgoing target of from with payload = pattern
node_find_via_outgoing(st, from, pattern) ==
    IF from = NULL THEN NULL
    ELSE LET Hit(e) == node_payload_exact_match(st, st.eh[e].to_node, pattern) IN
         Let([k \in {FirstIndex(st.nh[from].outgoing_edges, Hit)} |->
             IF k = 0 THEN NULL ELSE st.eh[st.nh[from].outgoing_edges[k]].to_node])

\* priority score of candidate edge e out of node (no wave statistics)
exploration_priority(st, node, e, pattern_size) ==
    Let([ed \in {st.eh[e]} |->
    Let([cand \in {st.nh[ed.to_node]} |->
    Let([psz \in {Len(cand.payload)} |->
    Let([size_part \in {IF psz < pattern_size THEN FZero
        ELSE IF psz = pattern_size
        THEN FMul(cand.weight,
                  FInt(Len(cand.outgoing_edges) + Len(cand.incoming_edges) + 1))
        ELSE FMul(FDiv(cand.weight, FAdd(cand.weight, FOne)),
                  FDiv(FInt(pattern_size), FInt(psz)))} |->
    Let([local_avg \in {node_get_local_outgoing_weight_avg(st, node)} |->
    Let([edge_weight_multiplier \in {IF FPos(local_avg) THEN FDiv(local_avg, FAdd(local_avg, FOne))
        ELSE FDiv(ed.weight, FAdd(ed.weight, FOne))} |->
        FAdd(size_part, FMul(ed.weight, edge_weight_multiplier))])])])])])])

\* candidates <<node, score>> of one wave-front node, in edge order
priority_candidates(st, node, visited, pattern_size) ==
    Let([out \in {st.nh[node].outgoing_edges} |->
    LET Fresh(e) == st.eh[e].to_node \notin visited IN
    Let([fresh \in {SelectSeq(out, Fresh)} |->
        Array([k \in 1 .. Len(fresh) |->
            <<st.eh[fresh[k]].to_node,
              exploration_priority(st, node, fresh[k], pattern_size)>>])])])

\* One pass of the selection-sort loop: the best remaining candidate is
\* swapped to position p and visited.  x = [plist, p, acc]
explore_candidate(st, pattern, x) ==
    Let([plist \in {x.plist} |->
    Let([p \in {x.p} |->
    Let([acc \in {x.acc} |->
    Let([best \in {MinSet({q \in p .. Len(plist) :
                  \A r \in p .. Len(plist) : ~FLt(plist[q][2], plist[r][2])})} |->
    Let([swapped \in {[plist EXCEPT ![p] = plist[best], ![best] = plist[p]]} |->
    Let([candidate \in {swapped[p][1]} |->
    Let([match_strength \in {node_calculate_match_strength(st, candidate, pattern)} |->
    Let([seen \in {[acc EXCEPT !.visited = @ \cup {candidate}]} |->
    Let([larger \in {Len(st.nh[candidate].payload) >= Len(pattern)} |->
    Let([tracked \in {IF larger /\ FGt(match_strength, acc.best_hierarchy_strength)
        THEN [seen EXCEPT !.best_hierarchy_strength = match_strength,
                          !.best_hierarchy_match = candidate]
        ELSE IF ~larger /\ FGt(match_strength, acc.best_match_strength)
        THEN [seen EXCEPT !.best_match_strength = match_strength,
                          !.best_similar = candidate]
        ELSE seen} |->
        IF p > Len(plist) \/ acc.found # NULL THEN x
        ELSE [plist |-> swapped, p |-> p + 1,
              acc |-> IF candidate \in acc.visited THEN acc
                      ELSE IF node_payload_exact_match(st, candidate, pattern)
                      THEN [seen EXCEPT !.found = candidate]
                      ELSE [tracked EXCEPT !.next = Append(@, candidate)]]])])])])])])])])])])

\* k passes of the selection-sort loop
RECURSIVE explore_candidates(_, _, _, _)
explore_candidates(st, pattern, x, k) ==
    Then(x,
    IF k <= 0 THEN x
    ELSE IF k = 1 THEN explore_candidate(st, pattern, x)
    ELSE explore_candidates(st, pattern, explore_candidates(st, pattern, x, k \div 2),
                            k - k \div 2))

\* node i of the wave front of the exploration
explore_node(st, wave_front, i, pattern, acc) ==
    Let([plist \in {priority_candidates(st, wave_front[i], acc.visited, Len(pattern))} |->
        IF acc.found # NULL THEN acc
        ELSE explore_candidates(st, pattern, [plist |-> plist, p |-> 1, acc |-> acc],
                                Len(plist)).acc])

\* one wave front of the exploration
RECURSIVE explore_front(_, _, _, _, _, _)
explore_front(st, wave_front, lo, hi, pattern, acc) ==
    Then(acc,
    IF lo > hi THEN acc
    ELSE IF lo = hi THEN explore_node(st, wave_front, lo, pattern, acc)
    ELSE explore_front(st, wave_front, Mid(lo, hi) + 1, hi, pattern,
                       explore_front(st, wave_front, lo, Mid(lo, hi), pattern, acc)))

\* one step of the exploration; x = [wave_front, step, acc]
explore_step(st, max_steps, pattern, x) ==
    Let([a1 \in {explore_front(st, x.wave_front, 1, Len(x.wave_front), pattern,
                      [x.acc EXCEPT !.next = <<>>])} |->
        IF x.step >= max_steps \/ Len(x.wave_front) = 0 \/ x.acc.found # NULL THEN x
        ELSE [wave_front |-> a1.next, step |-> x.step + 1, acc |-> a1]])

\* k steps of the exploration
RECURSIVE explore_steps(_, _, _, _, _)
explore_steps(st, max_steps, pattern, x, k) ==
    Then(x,
    IF k <= 0 THEN x
    ELSE IF k = 1 THEN explore_step(st, max_steps, pattern, x)
    ELSE explore_steps(st, max_steps, pattern,
                       explore_steps(st, max_steps, pattern, x, k \div 2),
                       k - k \div 2))

\* wave_find_node_via_exploration: the node found (exact or similar), or NULL
wave_find_node_via_exploration(st, seed_nodes, pattern, max_steps) ==
    LET Exact(n) == node_payload_exact_match(st, n, pattern) IN
    Let([k \in {FirstIndex(seed_nodes, Exact)} |->
    Let([acc \in {explore_steps(st, max_steps, pattern,
            [wave_front |-> seed_nodes, step |-> 0,
             acc |-> [found |-> NULL, best_similar |-> NULL,
                      best_match_strength |-> FZero,
                      best_hierarchy_match |-> NULL,
                      best_hierarchy_strength |-> FZero,
                      visited |-> {seed_nodes[i] : i \in 1 .. Len(seed_nodes)},
                      next |-> <<>>]],
            max_steps).acc} |->
    Let([hierarchy_threshold \in {IF FPos(acc.best_hierarchy_strength) /\ FPos(acc.best_match_strength)
        THEN FDiv(FAdd(acc.best_hierarchy_strength, acc.best_match_strength), FInt(2))
        ELSE IF FPos(acc.best_hierarchy_strength)
        THEN FDiv(acc.best_hierarchy_strength, FAdd(acc.best_hierarchy_strength, FOne))
        ELSE FZero} |->
        IF Len(seed_nodes) = 0 \/ max_steps = 0 THEN NULL
        ELSE IF k # 0 THEN seed_nodes[k]
        ELSE IF acc.found # NULL THEN acc.found
        ELSE IF acc.best_hierarchy_match # NULL
                /\ FGt(acc.best_hierarchy_strength, hierarchy_threshold)
        THEN acc.best_hierarchy_match
        ELSE IF acc.best_similar # NULL /\ FPos(acc.best_match_strength)
        THEN acc.best_similar
        ELSE NULL])])])

\* compute_adaptive_exploration_steps
compute_adaptive_exploration_steps(st, seed_count) ==
    Let([base_steps \in {IF Len(st.nodes) > 0 THEN BitLen(Len(st.nodes)) ELSE 1} |->
    Let([seed_factor \in {IF seed_count > 0
        THEN FDiv(FOne, FAdd(FOne, FMul(FInt(seed_count), FRat(1, 10))))
        ELSE FOne} |->
    Let([adaptive_steps \in {FToInt(FMul(FInt(base_steps), seed_factor))} |->
        Max2(1, Min2(adaptive_steps, 16))])])])

\* edge j of one wave-front node in the blank search: an unvisited target
\* is visited and queued; a blank one is also a candidate
blank_edge(st, out, j, acc) ==
    Let([candidate \in {st.eh[out[j]].to_node} |->
        IF candidate \in acc.visited THEN acc
        ELSE [acc EXCEPT !.visited = @ \cup {candidate},
                         !.next = Append(@, candidate),
                         !.blank_candidates =
                             IF Len(st.nh[candidate].payload) = 0
                             THEN Append(@, candidate) ELSE @]])

RECURSIVE blank_edges(_, _, _, _, _)
blank_edges(st, out, lo, hi, acc) ==
    Then(acc,
    IF lo > hi THEN acc
    ELSE IF lo = hi THEN blank_edge(st, out, lo, acc)
    ELSE blank_edges(st, out, Mid(lo, hi) + 1, hi,
                     blank_edges(st, out, lo, Mid(lo, hi), acc)))

\* blank candidate b of one wave-front node: highest acceptance wins
blank_score(st, cands, b, pattern, acc) ==
    Let([acceptance_score \in {node_calculate_match_strength(st, cands[b], pattern)} |->
        IF FGt(acceptance_score, acc.best_acceptance_score)
        THEN [acc EXCEPT !.best_acceptance_score = acceptance_score,
                         !.best_blank = cands[b]]
        ELSE acc])

RECURSIVE blank_scores(_, _, _, _, _, _)
blank_scores(st, cands, lo, hi, pattern, acc) ==
    Then(acc,
    IF lo > hi THEN acc
    ELSE IF lo = hi THEN blank_score(st, cands, lo, pattern, acc)
    ELSE blank_scores(st, cands, Mid(lo, hi) + 1, hi, pattern,
                      blank_scores(st, cands, lo, Mid(lo, hi), pattern, acc)))

\* node i of the wave front of the blank search
blank_front_node(st, wave_front, i, pattern, acc) ==
    Let([out \in {st.nh[wave_front[i]].outgoing_edges} |->
    Let([a1 \in {blank_edges(st, out, 1, Len(out), [acc EXCEPT !.blank_candidates = <<>>])} |->
        Then(a1, blank_scores(st, a1.blank_candidates, 1, Len(a1.blank_candidates),
                              pattern, a1))])])

RECURSIVE blank_front(_, _, _, _, _, _)
blank_front(st, wave_front, lo, hi, pattern, acc) ==
    Then(acc,
    IF lo > hi THEN acc
    ELSE IF lo = hi THEN blank_front_node(st, wave_front, lo, pattern, acc)
    ELSE blank_front(st, wave_front, Mid(lo, hi) + 1, hi, pattern,
                     blank_front(st, wave_front, lo, Mid(lo, hi), pattern, acc)))

\* one step of the blank search; x = [wave_front, step, acc]
blank_step(st, max_steps, pattern, x) ==
    Let([a1 \in {blank_front(st, x.wave_front, 1, Len(x.wave_front), pattern,
                    [x.acc EXCEPT !.next = <<>>])} |->
        IF x.step >= max_steps \/ Len(x.wave_front) = 0 THEN x
        ELSE [wave_front |-> a1.next, step |-> x.step + 1, acc |-> a1]])

RECURSIVE blank_steps(_, _, _, _, _)
blank_steps(st, max_steps, pattern, x, k) ==
    Then(x,
    IF k <= 0 THEN x
    ELSE IF k = 1 THEN blank_step(st, max_steps, pattern, x)
    ELSE blank_steps(st, max_steps, pattern,
                     blank_steps(st, max_steps, pattern, x, k \div 2), k - k \div 2))

\* wave_find_accepting_blank_node: the best accepting blank node, or NULL
wave_find_accepting_blank_node(st, seed_nodes, pattern, max_steps) ==
    IF Len(seed_nodes) = 0 \/ max_steps = 0 THEN NULL
    ELSE blank_steps(st, max_steps, pattern,
             [wave_front |-> seed_nodes, step |-> 0,
              acc |-> [visited |-> {seed_nodes[i] : i \in 1 .. Len(seed_nodes)},
                       next |-> <<>>, blank_candidates |-> <<>>,
                       best_blank |-> NULL, best_acceptance_score |-> FZero]],
             max_steps).acc.best_blank

(***************************************************************************)
(* Ingestion: wave_process_sequential_patterns                             *)
(* data is the input buffer, positions are 1-based (C index i is pos - 1). *)
(***************************************************************************)
node_create_blank(st) == node_create(st, <<>>)

\* bytes buf[pos .. pos + n - 1]; bytes past the end of the buffer read as 0
ReadBytes(buf, pos, n) ==
    Array([k \in 1 .. n |-> IF pos + k - 1 <= Len(buf) THEN buf[pos + k - 1] ELSE 0])

\* node_fill_blank with the fill size rounded up instead of truncated
node_fill_blank_rounded_up(st, blank_node, buf, pos, pattern_size, match_strength) ==
    IF blank_node = NULL \/ pattern_size = 0 \/ ~FPos(match_strength) THEN Ret(st, NULL)
    ELSE Let([fill_size \in {FToInt(FMul(FInt(pattern_size), match_strength)) + 1} |->
         Let([cr \in {node_create(st, ReadBytes(buf, pos, fill_size))} |->
             IF cr.r = NULL THEN cr
             ELSE Ret([cr.st EXCEPT !.nh[cr.r].weight =
                          FDiv(FAdd(st.nh[blank_node].weight, match_strength), FInt(2))],
                      cr.r)])])

\* node_fill_blank: a new node holding the first fill_size bytes at pos
node_fill_blank(st, blank_node, buf, pos, pattern_size, match_strength) ==
    IF blank_node = NULL \/ pattern_size = 0 \/ ~FPos(match_strength) THEN Ret(st, NULL)
    ELSE Let([raw \in {FToInt(FMul(FInt(pattern_size), match_strength))} |->
         Let([fill_size \in {IF raw = 0 THEN 1 ELSE raw} |->
         Let([cr \in {node_create(st, ReadBytes(buf, pos, fill_size))} |->
             IF cr.r = NULL THEN cr
             ELSE Ret([cr.st EXCEPT !.nh[cr.r].weight =
                          FDiv(FAdd(st.nh[blank_node].weight, match_strength), FInt(2))],
                      cr.r)])])])

\* edge1 = a -> b and edge2 = b -> a are created, then each is given weight w
\* and added to the graph
connect_both_ways(st, a, b, w) ==
    Let([c1 \in {edge_create(st, a, b, TRUE)} |->
    Let([c2 \in {edge_create(c1.st, b, a, TRUE)} |->
    Let([s1 \in {IF c1.r = NULL THEN c2.st
        ELSE graph_add_edge([c2.st EXCEPT !.eh[c1.r].weight = w], c1.r, a, b).st} |->
        IF c2.r = NULL THEN s1
        ELSE graph_add_edge([s1 EXCEPT !.eh[c2.r].weight = w], c2.r, b, a).st])])])

\* bootstrap: an activation of exactly 0 becomes the match strength
bootstrap_activation(st, n, pattern) ==
    IF n # NULL /\ st.nh[n].activation_strength[1] = 0
    THEN [st EXCEPT !.nh[n].activation_strength =
                        node_calculate_match_strength(st, n, pattern)]
    ELSE st

\* nodes of the graph with positive activation, in g->nodes order
collect_seeds(st) ==
    LET Active(n) == FPos(st.nh[n].activation_strength) IN
        SelectSeq(st.nodes, Active)

\* sum of the integers s[lo .. hi]
RECURSIVE SumIntRange(_, _, _)
SumIntRange(s, lo, hi) ==
    IF lo > hi THEN 0
    ELSE IF lo = hi THEN s[lo]
    ELSE SumIntRange(s, lo, Mid(lo, hi)) + SumIntRange(s, Mid(lo, hi) + 1, hi)

SumInt(s) == SumIntRange(s, 1, Len(s))

\* largest pattern size tried at a position with `remaining` bytes left
max_pattern_size(st, seed_nodes, remaining) ==
    Let([sizes \in {Array([k \in 1 .. Len(seed_nodes) |-> Len(st.nh[seed_nodes[k]].payload)])} |->
    Let([with_payload \in {{k \in 1 .. Len(sizes) : sizes[k] > 0}} |->
        IF with_payload = {} THEN remaining
        ELSE
    Let([avg_payload_size \in {SumInt(sizes) \div Cardinality(with_payload)} |->
    Let([max_local_payload \in {MaxSet({sizes[k] : k \in with_payload})} |->
    Let([adaptive_max \in {Max2(max_local_payload, avg_payload_size)} |->
        IF adaptive_max > 0 /\ adaptive_max < remaining
        THEN adaptive_max ELSE remaining])])])])])

\* steps 1-3 at one position for one pattern size.
\* x = [st, activated, pos, try_size]; pos is advanced when step 3 matches.
hierarchy_try(data, sequence, prev_node, seed_nodes, x) ==
    Let([st \in {x.st} |->
    Let([pos \in {x.pos} |->
    Let([try_size \in {x.try_size} |->
        IF x.activated # NULL \/ try_size < 1 THEN x
        ELSE
    Let([pattern \in {SubSeq(data, pos, pos + try_size - 1)} |->
    Let([via_prev \in {IF prev_node # NULL /\ try_size = 1
        THEN node_find_via_outgoing(st, prev_node, pattern) ELSE NULL} |->
    LET Exact(n) == node_payload_exact_match(st, n, pattern) IN
    Let([k \in {IF via_prev # NULL THEN 0 ELSE FirstIndex(sequence, Exact)} |->
    Let([local \in {IF via_prev # NULL THEN via_prev
        ELSE IF k # 0 THEN sequence[k] ELSE NULL} |->
        IF local # NULL
        THEN [x EXCEPT !.st = bootstrap_activation(st, local, pattern),
                       !.activated = local]
        ELSE IF try_size > 1
        THEN
    Let([hierarchy_match \in {wave_find_node_via_exploration(st, seed_nodes, pattern, 2)} |->
             IF hierarchy_match # NULL /\ Exact(hierarchy_match)
             THEN [x EXCEPT !.activated = hierarchy_match, !.pos = pos + try_size - 1]
             ELSE [x EXCEPT !.try_size = try_size - 1]])
        ELSE [x EXCEPT !.try_size = try_size - 1]])])])])])])])

\* hierarchy-first matching: k pattern sizes from x.try_size down
RECURSIVE hierarchy_first(_, _, _, _, _, _)
hierarchy_first(data, sequence, prev_node, seed_nodes, x, k) ==
    Then(x,
    IF k <= 0 THEN x
    ELSE IF k = 1 THEN hierarchy_try(data, sequence, prev_node, seed_nodes, x)
    ELSE hierarchy_first(data, sequence, prev_node, seed_nodes,
                         hierarchy_first(data, sequence, prev_node, seed_nodes, x,
                                         k \div 2),
                         k - k \div 2))

\* step 5 with an accepting blank: fill it, or attach a new pattern node to it
\* step 5, the blank was not filled: a new node for the pattern is connected
\* to the blank
attach_to_blank(st, accepting_blank, pattern, acceptance_strength) ==
    Let([nr \in {node_create(st, pattern)} |->
    Let([na \in {graph_add_node(nr.st, nr.r)} |->
        IF nr.r # NULL /\ na.r
        THEN Ret(connect_both_ways(na.st, nr.r, accepting_blank, acceptance_strength),
                 nr.r)
        ELSE Ret(IF nr.r = NULL THEN nr.st ELSE node_free(na.st, nr.r), accepting_blank)])])

accept_into_blank(st, accepting_blank, data, pos) ==
    Let([pattern \in {<<data[pos]>>} |->
    Let([acceptance_strength \in {node_calculate_match_strength(st, accepting_blank, pattern)} |->
    Let([local_avg \in {node_local_avg(st, accepting_blank)} |->
    Let([acceptance_threshold \in {IF FPos(local_avg) THEN local_avg ELSE FZero} |->
        IF ~FGt(acceptance_strength, acceptance_threshold)
        THEN attach_to_blank(st, accepting_blank, pattern, acceptance_strength)
        ELSE
    Let([fr \in {node_fill_blank(st, accepting_blank, data, pos, 1, acceptance_strength)} |->
        IF fr.r = NULL
        THEN attach_to_blank(fr.st, accepting_blank, pattern, acceptance_strength)
        ELSE
    Let([fa \in {graph_add_node(fr.st, fr.r)} |->
        IF ~fa.r
        THEN attach_to_blank(node_free(fa.st, fr.r), accepting_blank, pattern,
                             acceptance_strength)
        ELSE
    Let([s_in \in {transfer_edges(fa.st, accepting_blank, FALSE, 1,
                       Len(fa.st.nh[accepting_blank].incoming_edges), fr.r)} |->
        Ret(transfer_edges(s_in, accepting_blank, TRUE, 1,
                           Len(s_in.nh[accepting_blank].outgoing_edges), fr.r),
            fr.r)])])])])])])])

\* the blank node reached by the first outgoing edge of n that ends at a blank
existing_blank_bridge(st, n) ==
    LET ToBlank(e) == Len(st.nh[st.eh[e].to_node].payload) = 0 IN
    Let([k \in {FirstIndex(st.nh[n].outgoing_edges, ToBlank)} |->
        IF k = 0 THEN NULL ELSE st.eh[st.nh[n].outgoing_edges[k]].to_node])

\* step 6, first half: Ret(state, blank bridge of found_match or NULL)
make_blank_bridge(st, found_match, pattern) ==
    Let([old \in {existing_blank_bridge(st, found_match)} |->
        IF old # NULL THEN Ret(st, old)
        ELSE
    Let([br \in {node_create_blank(st)} |->
    Let([ba \in {graph_add_node(br.st, br.r)} |->
        IF br.r # NULL /\ ba.r
        THEN
    Let([match_strength \in {node_calculate_match_strength(ba.st, found_match, pattern)} |->
    Let([s1 \in {[ba.st EXCEPT
           !.nh[br.r].abstraction_level = ba.st.nh[found_match].abstraction_level,
           !.nh[br.r].weight =
               FDiv(FAdd(ba.st.nh[found_match].weight, match_strength), FInt(2))]} |->
             Ret(connect_both_ways(s1, br.r, found_match, match_strength), br.r)])])
        ELSE Ret(IF br.r = NULL THEN br.st ELSE node_free(ba.st, br.r), NULL)])])])

\* step 6: a similar node was found; bridge it with a blank and add the pattern
bridge_similar(st, found_match, pattern) ==
    Let([bb \in {make_blank_bridge(st, found_match, pattern)} |->
    Let([blank_bridge \in {bb.r} |->
    Let([nr \in {node_create(bb.st, pattern)} |->
    Let([na \in {graph_add_node(nr.st, nr.r)} |->
    Let([match_strength \in {node_calculate_match_strength(na.st, found_match, pattern)} |->
        IF nr.r # NULL /\ na.r
        THEN Ret(connect_both_ways(na.st, nr.r, blank_bridge, match_strength), nr.r)
        ELSE Ret(IF nr.r = NULL THEN nr.st ELSE node_free(na.st, nr.r),
                 IF blank_bridge # NULL THEN blank_bridge ELSE found_match)])])])])])

\* step 7: create a new node for the byte
create_pattern_node(st, pattern) ==
    Let([nr \in {node_create(st, pattern)} |->
    Let([na \in {graph_add_node(nr.st, nr.r)} |->
        IF nr.r # NULL /\ na.r THEN Ret(na.st, nr.r)
        ELSE Ret(IF nr.r = NULL THEN nr.st ELSE node_free(na.st, nr.r), NULL)])])

\* steps 4-7 for the single byte at pos: Ret(state, activated node or NULL)
single_byte_match(st, data, pos, seed_nodes) ==
    Let([pattern \in {<<data[pos]>>} |->
        IF Len(seed_nodes) = 0 THEN create_pattern_node(st, pattern)
        ELSE
    Let([found_match \in {wave_find_node_via_exploration(st, seed_nodes, pattern, 3)} |->
        IF node_payload_exact_match(st, found_match, pattern)
        THEN Ret(bootstrap_activation(st, found_match, pattern), found_match)
        ELSE
    Let([accepting_blank \in {wave_find_accepting_blank_node(st, seed_nodes, pattern,
            compute_adaptive_exploration_steps(st, Len(seed_nodes)))} |->
        IF accepting_blank # NULL
        THEN accept_into_blank(st, accepting_blank, data, pos)
        ELSE IF found_match # NULL
        THEN bridge_similar(st, found_match, pattern)
        ELSE create_pattern_node(st, pattern)])])])

\* one iteration of the loop over the input positions.
\* x = [st, pos, sequence, prev_node]
process_position(data, seed_nodes, x) ==
    IF x.pos > Len(data) THEN x
    ELSE
    Let([try_size \in {max_pattern_size(x.st, seed_nodes, Len(data) - x.pos + 1)} |->
    Let([hf \in {hierarchy_first(data, x.sequence, x.prev_node, seed_nodes,
            [st |-> x.st, activated |-> NULL, pos |-> x.pos,
             try_size |-> try_size], try_size)} |->
    Let([sb \in {IF hf.activated # NULL THEN Ret(hf.st, hf.activated)
        ELSE single_byte_match(hf.st, data, hf.pos, seed_nodes)} |->
        IF sb.r = NULL
        THEN [x EXCEPT !.st = sb.st, !.pos = hf.pos + 1]
        ELSE [st |-> bootstrap_activation(sb.st, sb.r, <<data[hf.pos]>>),
              pos |-> hf.pos + 1, sequence |-> Append(x.sequence, sb.r),
              prev_node |-> sb.r]])])])

\* k iterations of the loop over the input positions
RECURSIVE process_positions(_, _, _, _)
process_positions(data, seed_nodes, x, k) ==
    Then(x,
    IF k <= 0 THEN x
    ELSE IF k = 1 THEN process_position(data, seed_nodes, x)
    ELSE process_positions(data, seed_nodes,
                           process_positions(data, seed_nodes, x, k \div 2),
                           k - k \div 2))

\* wave_process_sequential_patterns: [st, sequence]
wave_process_sequential_patterns(st, data) ==
    IF Len(data) = 0 THEN [st |-> st, sequence |-> <<>>]
    ELSE Let([x \in {process_positions(data, collect_seeds(st),
                 [st |-> st, pos |-> 1, sequence |-> <<>>, prev_node |-> NULL],
                 Len(data))} |->
             [st |-> x.st, sequence |-> x.sequence]])

(***************************************************************************)
(* Edge formation: similarity, generalization, homeostasis                 *)
(***************************************************************************)
\* (size_t)sqrtf((float)n)
ISqrt(n) == MaxSet({k \in 0 .. n : k * k <= n})

compute_adaptive_sample_limit(total_count, min_sample, max_sample) ==
    Let([adaptive \in {ISqrt(total_count) + 1} |->
        IF total_count = 0 THEN 0
        ELSE IF total_count <= min_sample THEN total_count
        ELSE IF adaptive < min_sample THEN min_sample
        ELSE IF adaptive > max_sample THEN max_sample
        ELSE IF adaptive > total_count THEN total_count
        ELSE adaptive])

\* outgoing_count + incoming_count
connection_count(st, n) == Len(st.nh[n].outgoing_edges) + Len(st.nh[n].incoming_edges)

\* connection counts of the first `limit` neighbours over list elist
neighbor_connections(st, elist, outgoing, limit) ==
    Array([k \in 1 .. Min2(Len(elist), limit) |->
        connection_count(st, IF outgoing THEN st.eh[elist[k]].to_node
                             ELSE st.eh[elist[k]].from_node)])

\* the isolation threshold computed from a single neighbour sample
single_sample_threshold(node_connections, sample) ==
    Let([nc \in {FInt(node_connections)} |->
    Let([c0 \in {FInt(sample)} |->
    Let([ratio \in {FDiv(c0, FAdd(nc, compute_adaptive_epsilon(FMax(nc, c0))))} |->
    Let([capped \in {FMin(ratio, FRat(3, 4))} |->
    Let([relative_fraction \in {IF node_connections > 0 /\ sample > 0
        THEN IF node_connections > sample THEN FMax(capped, FRat(1, 4)) ELSE capped
        ELSE IF sample > 0 THEN FDiv(c0, FAdd(c0, compute_adaptive_epsilon(c0)))
        ELSE FZero} |->
        FMul(c0, relative_fraction)])])])])])

\* edge_is_node_isolated
edge_is_node_isolated(st, n) ==
    IF n = NULL THEN FALSE
    ELSE
    Let([nd \in {st.nh[n]} |->
    Let([total_connections \in {connection_count(st, n)} |->
    Let([out_s \in {neighbor_connections(st, nd.outgoing_edges, TRUE,
            compute_adaptive_sample_limit(Len(nd.outgoing_edges), 1,
                                          Len(nd.outgoing_edges)))} |->
    Let([in_s \in {neighbor_connections(st, nd.incoming_edges, FALSE,
            compute_adaptive_sample_limit(Len(nd.incoming_edges), 1,
                                          Len(nd.incoming_edges)))} |->
    Let([neighbor_count \in {Len(out_s) + Len(in_s)} |->
        IF neighbor_count = 0 THEN total_connections = 0
        ELSE
    Let([neighbor_avg \in {FDiv(FInt(SumInt(out_s) + SumInt(in_s)), FInt(neighbor_count))} |->
    Let([max_sample \in {compute_adaptive_sample_limit(neighbor_count, 1, neighbor_count)} |->
    Let([all_s \in {neighbor_connections(st, nd.incoming_edges, FALSE, Len(nd.incoming_edges))
        \o neighbor_connections(st, nd.outgoing_edges, TRUE, Len(nd.outgoing_edges))} |->
    Let([connections \in {SubSeq(all_s, 1, Min2(Len(all_s), max_sample))} |->
    Let([idx \in {Len(connections)} |->
    Let([sorted \in {SortF(Array([k \in 1 .. idx |-> FInt(connections[k])]))} |->
    Let([isolation_threshold \in {IF idx > 1 THEN sorted[idx \div 4 + 1]
        ELSE single_sample_threshold(total_connections, connections[1])} |->
        FLt(FInt(total_connections), neighbor_avg)
        /\ FLt(FInt(total_connections), isolation_threshold)])])])])])])])])])])])])

\* compute_well_connected_threshold
compute_well_connected_threshold(st, n) ==
    Let([nd \in {st.nh[n]} |->
    Let([total \in {connection_count(st, n)} |->
    Let([sample_size \in {compute_adaptive_sample_limit(total, 1, total)} |->
    Let([all_s \in {neighbor_connections(st, nd.outgoing_edges, TRUE, Len(nd.outgoing_edges))
        \o neighbor_connections(st, nd.incoming_edges, FALSE, Len(nd.incoming_edges))} |->
    Let([counts \in {SubSeq(all_s, 1, Min2(Len(all_s), sample_size))} |->
        IF Len(counts) > 0
        THEN compute_percentile_from_array(
                 Array([k \in 1 .. Len(counts) |-> FInt(counts[k])]), 75)
        ELSE FInt(total)])])])])])

HomeostaticMaxConnections == 2

\* one iteration of the inner loop of wave_create_homeostatic_edges over the
\* neighbour's edges; x = [st, created, j]
homeostatic_edge(x, isolated_node, neighbor, threshold) ==
    Let([st \in {x.st} |->
        IF x.j > Len(st.nh[neighbor].outgoing_edges)
           \/ x.created >= HomeostaticMaxConnections THEN x
        ELSE
    Let([well_connected \in {st.eh[st.nh[neighbor].outgoing_edges[x.j]].to_node} |->
        IF well_connected # isolated_node
           /\ FGt(FInt(connection_count(st, well_connected)), threshold)
           /\ node_find_edge_to(st, isolated_node, well_connected) = NULL
        THEN
    Let([cr \in {edge_create(st, isolated_node, well_connected, TRUE)} |->
             IF cr.r = NULL
             THEN [x EXCEPT !.st = cr.st, !.j = x.j + 1]
             ELSE
    Let([s1 \in {[cr.st EXCEPT !.eh[cr.r].weight = FRat(5, 100)]} |->
                  [st |-> graph_add_edge(s1, cr.r, isolated_node, well_connected).st,
                   created |-> x.created + 1, j |-> x.j + 1]])])
        ELSE [x EXCEPT !.j = x.j + 1]])])

\* k iterations of the inner loop
RECURSIVE homeostatic_inner(_, _, _, _, _)
homeostatic_inner(x, isolated_node, neighbor, threshold, k) ==
    Then(x,
    IF k <= 0 THEN x
    ELSE IF k = 1 THEN homeostatic_edge(x, isolated_node, neighbor, threshold)
    ELSE homeostatic_inner(
             homeostatic_inner(x, isolated_node, neighbor, threshold, k \div 2),
             isolated_node, neighbor, threshold, k - k \div 2))

\* one iteration of the outer loop over the isolated node's own edges;
\* x = [st, created, i].  The inner loop ends after at most
\* HomeostaticMaxConnections new edges, so the list it walks grows by no more.
homeostatic_neighbor(x, isolated_node) ==
    Let([st \in {x.st} |->
        IF x.i > Len(st.nh[isolated_node].outgoing_edges)
           \/ x.created >= HomeostaticMaxConnections THEN x
        ELSE
    Let([neighbor \in {st.eh[st.nh[isolated_node].outgoing_edges[x.i]].to_node} |->
    Let([threshold \in {compute_well_connected_threshold(st, isolated_node)} |->
        IF FGt(FInt(connection_count(st, neighbor)), threshold)
        THEN
    Let([inner \in {homeostatic_inner([st |-> st, created |-> x.created, j |-> 1],
            isolated_node, neighbor, threshold,
            Len(st.nh[neighbor].outgoing_edges) + HomeostaticMaxConnections)} |->
             [st |-> inner.st, created |-> inner.created, i |-> x.i + 1]])
        ELSE [x EXCEPT !.i = x.i + 1]])])])

\* k iterations of the outer loop
RECURSIVE homeostatic_outer(_, _, _)
homeostatic_outer(x, isolated_node, k) ==
    Then(x,
    IF k <= 0 THEN x
    ELSE IF k = 1 THEN homeostatic_neighbor(x, isolated_node)
    ELSE homeostatic_outer(homeostatic_outer(x, isolated_node, k \div 2),
                           isolated_node, k - k \div 2))

\* wave_create_homeostatic_edges
wave_create_homeostatic_edges(st, isolated_node) ==
    IF isolated_node = NULL \/ ~edge_is_node_isolated(st, isolated_node) THEN st
    ELSE homeostatic_outer([st |-> st, created |-> 0, i |-> 1], isolated_node,
                           Len(st.nh[isolated_node].outgoing_edges)
                           + HomeostaticMaxConnections).st

\* largest edge weight around n (0 when there is none larger)
local_max_weight(st, n) ==
    Let([es \in {st.nh[n].outgoing_edges \o st.nh[n].incoming_edges} |->
    Let([ws \in {{FZero} \cup {st.eh[es[k]].weight : k \in 1 .. Len(es)}} |->
        CHOOSE m \in ws : \A w \in ws : ~FLt(m, w)])])

\* wave_create_edges_from_similarity
wave_create_edges_from_similarity(st, node, similarity_threshold) ==
    IF node = NULL THEN st
    ELSE
    Let([similar \in {wave_find_node_via_exploration(st, <<node>>, st.nh[node].payload, 3)} |->
    Let([similarity \in {edge_compute_pattern_similarity(st, node, similar)} |->
    Let([local_avg \in {node_local_avg(st, node)} |->
    Let([local_max \in {local_max_weight(st, node)} |->
    Let([base \in {IF FPos(local_avg) THEN local_avg
        ELSE IF FPos(local_max) THEN FDiv(local_max, FAdd(local_max, FOne))
        ELSE FZero} |->
    Let([relative_threshold \in {IF FPos(similarity_threshold)
        THEN FMax(base, similarity_threshold) ELSE base} |->
    Let([context_weight \in {IF FPos(local_avg)
        THEN FMul(similarity, FDiv(local_avg, FAdd(local_avg, FOne)))
        ELSE similarity} |->
    Let([c1 \in {edge_create(st, node, similar, TRUE)} |->
    Let([c2 \in {edge_create(c1.st, similar, node, TRUE)} |->
    Let([sw \in {[c2.st EXCEPT !.eh[c1.r].weight = context_weight,
                      !.eh[c2.r].weight = context_weight]} |->
        IF similar = NULL \/ similar = node THEN st
        ELSE IF node_find_edge_to(st, node, similar) # NULL THEN st
        ELSE IF FLt(similarity, relative_threshold) THEN st
        ELSE IF c1.r # NULL /\ c2.r # NULL
        THEN graph_add_edge(graph_add_edge(sw, c1.r, node, similar).st,
                            c2.r, similar, node).st
        ELSE edge_free(edge_free(c2.st, c1.r), c2.r)])])])])])])])])])])

\* is some node of the graph connected by outgoing edges to both nodes
generalization_exists(st, node1, node2) ==
    \E k \in 1 .. Len(st.nodes) :
        /\ node_find_edge_to(st, st.nodes[k], node1) # NULL
        /\ node_find_edge_to(st, st.nodes[k], node2) # NULL

\* a rollback that drops the first entry of the node list
remove_first_node(st, n) ==
    IF Len(st.nodes) = 0 THEN st ELSE [st EXCEPT !.nodes = Tail(st.nodes)]

\* the rollback of wave_form_universal_generalizations: the first slot that
\* holds the node takes the last entry, and the list shrinks by one
remove_node_from_graph(st, n) ==
    LET Is(x) == x = n IN
    Let([k \in {FirstIndex(st.nodes, Is)} |->
        IF k = 0 THEN st
        ELSE [st EXCEPT !.nodes = SubSeq([st.nodes EXCEPT ![k] = st.nodes[Len(st.nodes)]],
                                         1, Len(st.nodes) - 1)]])

\* create the generalization node of a pair and wire it with four edges
form_generalization(st, node1, node2, similarity, avg_context) ==
    Let([gr \in {node_create_blank(st)} |->
    Let([generalization \in {gr.r} |->
    Let([ga \in {graph_add_node(gr.st, generalization)} |->
        IF generalization = NULL \/ ~ga.r THEN ga.st
        ELSE
    Let([c1 \in {edge_create(ga.st, node1, generalization, TRUE)} |->
    Let([c2 \in {edge_create(c1.st, generalization, node1, TRUE)} |->
    Let([c3 \in {edge_create(c2.st, node2, generalization, TRUE)} |->
    Let([c4 \in {edge_create(c3.st, generalization, node2, TRUE)} |->
        IF c1.r # NULL /\ c2.r # NULL /\ c3.r # NULL /\ c4.r # NULL
        THEN
    Let([gen_weight \in {IF FPos(avg_context)
        THEN FMul(similarity, FDiv(avg_context, FAdd(avg_context, FOne)))
        ELSE similarity} |->
    Let([sw \in {[c4.st EXCEPT !.eh[c1.r].weight = gen_weight,
                      !.eh[c2.r].weight = gen_weight,
                      !.eh[c3.r].weight = gen_weight,
                      !.eh[c4.r].weight = gen_weight]} |->
    Let([a1 \in {graph_add_edge(sw, c1.r, node1, generalization).st} |->
    Let([a2 \in {graph_add_edge(a1, c2.r, generalization, node1).st} |->
    Let([a3 \in {graph_add_edge(a2, c3.r, node2, generalization).st} |->
             graph_add_edge(a3, c4.r, generalization, node2).st])])])])])
        ELSE
    Let([freed \in {edge_free(edge_free(edge_free(edge_free(c4.st, c1.r), c2.r), c3.r), c4.r)} |->
             node_free(remove_node_from_graph(freed, generalization), generalization)])])])])])])])])

\* one pair (i, j) of wave_form_universal_generalizations
generalize_pair(st, node1, node2) ==
    IF node1 = NULL \/ node2 = NULL THEN st
    ELSE IF Len(st.nh[node1].payload) = 0 \/ Len(st.nh[node2].payload) = 0 THEN st
    ELSE
    Let([similarity \in {edge_compute_pattern_similarity(st, node1, node2)} |->
    Let([avg_context \in {FDiv(FAdd(node_local_avg(st, node1), node_local_avg(st, node2)),
             FInt(2))} |->
    Let([min_similarity \in {avg_context} |->
    Let([max_similarity \in {FDiv(FAdd(avg_context, FOne), FInt(2))} |->
        IF (min_similarity[1] = 0 \/ FGe(similarity, min_similarity))
                /\ (max_similarity = FOne \/ FLe(similarity, max_similarity))
                /\ ~generalization_exists(st, node1, node2)
        THEN form_generalization(st, node1, node2, similarity, avg_context)
        ELSE st])])])])

\* the p-th pair <<i, j>>, i < j <= n, in row order
PairsBefore(n, i) == i * n - (i * (i + 1)) \div 2
PairAt(n, p) ==
    Let([i \in {CHOOSE r \in 1 .. n - 1 : PairsBefore(n, r - 1) < p /\ p <= PairsBefore(n, r)} |->
        <<i, i + (p - PairsBefore(n, i - 1))>>])

\* the pairs lo .. hi of the double loop, in row order
RECURSIVE generalize_pairs(_, _, _, _)
generalize_pairs(st, co_activated, lo, hi) ==
    Then(st,
    IF lo > hi THEN st
    ELSE IF lo = hi
    THEN generalize_pair(st, co_activated[PairAt(Len(co_activated), lo)[1]],
                         co_activated[PairAt(Len(co_activated), lo)[2]])
    ELSE generalize_pairs(generalize_pairs(st, co_activated, lo, Mid(lo, hi)),
                          co_activated, Mid(lo, hi) + 1, hi))

\* wave_form_universal_generalizations
wave_form_universal_generalizations(st, co_activated) ==
    IF Len(co_activated) < 2 THEN st
    ELSE generalize_pairs(st, co_activated, 1,
                          PairsBefore(Len(co_activated), Len(co_activated) - 1))

\* is there an outgoing edge of node1 to a node whose payload is that of
\* node1 followed by that of node2 (equal sizes, equal bytes)
combination_exists(st, node1, node2) ==
    \E k \in 1 .. Len(st.nh[node1].outgoing_edges) :
        Let([candidate \in {st.eh[st.nh[node1].outgoing_edges[k]].to_node} |->
            /\ candidate # NULL
            /\ st.nh[candidate].payload = st.nh[node1].payload \o st.nh[node2].payload])

\* is the connecting edge strong relative to the context of the two nodes
should_combine(st, node1, node2, connecting) ==
    Let([avg_local \in {FDiv(FAdd(node_local_avg(st, node1), node_local_avg(st, node2)),
                             FInt(2))} |->
    Let([node_weight_avg \in {FDiv(FAdd(st.nh[node1].weight, st.nh[node2].weight),
                                   FInt(2))} |->
    Let([comparison_value \in {IF FPos(avg_local) THEN avg_local
                               ELSE IF FPos(node_weight_avg) THEN node_weight_avg
                               ELSE FZero} |->
        IF FPos(comparison_value)
        THEN FGe(st.eh[connecting].weight, comparison_value)
        ELSE FPos(st.eh[connecting].weight)])])])

\* create the combined node of a pair and give it the edges of its parents
form_combination(st, node1, node2) ==
    Let([cr \in {node_combine_payloads(st, node1, node2)} |->
    Let([ar \in {graph_add_node(cr.st, cr.r)} |->
        IF cr.r # NULL /\ ar.r
        THEN
    Let([s1 \in {node_transfer_incoming_to_hierarchy(ar.st, node1, node2, cr.r)} |->
    Let([a \in {node_compute_activation_strength(s1, cr.r)} |->
             [a.st EXCEPT !.nh[cr.r].activation_strength = a.r]])])
        ELSE node_free(ar.st, cr.r)])])

\* one pair (i, j) of wave_form_universal_combinations
combine_pair(st, node1, node2) ==
    IF node1 = NULL \/ node2 = NULL THEN st
    ELSE
    Let([forward \in {node_find_edge_to(st, node1, node2)} |->
    Let([connecting \in {IF forward # NULL THEN forward
                         ELSE node_find_edge_to(st, node2, node1)} |->
        IF connecting = NULL THEN st
        ELSE IF should_combine(st, node1, node2, connecting)
                /\ ~combination_exists(st, node1, node2)
        THEN form_combination(st, node1, node2)
        ELSE st])])

\* the pairs lo .. hi of the double loop, in row order
RECURSIVE combine_pairs(_, _, _, _)
combine_pairs(st, co_activated, lo, hi) ==
    Then(st,
    IF lo > hi THEN st
    ELSE IF lo = hi
    THEN combine_pair(st, co_activated[PairAt(Len(co_activated), lo)[1]],
                      co_activated[PairAt(Len(co_activated), lo)[2]])
    ELSE combine_pairs(combine_pairs(st, co_activated, lo, Mid(lo, hi)),
                       co_activated, Mid(lo, hi) + 1, hi))

\* wave_form_universal_combinations
wave_form_universal_combinations(st, co_activated) ==
    IF Len(co_activated) < 2 THEN st
    ELSE combine_pairs(st, co_activated, 1,
                       PairsBefore(Len(co_activated), Len(co_activated) - 1))

\* the similarity law for activated node i
similarity_node(st, activated_nodes, i) ==
    Let([node \in {activated_nodes[i]} |->
    Let([local_avg \in {node_local_avg(st, node)} |->
    Let([similarity_threshold \in {IF FPos(local_avg) THEN local_avg ELSE FZero} |->
        IF node # NULL /\ Len(st.nh[node].payload) > 0
        THEN wave_create_edges_from_similarity(st, node, similarity_threshold)
        ELSE st])])])

\* the similarity law over activated nodes lo .. hi
RECURSIVE similarity_loop(_, _, _, _)
similarity_loop(st, activated_nodes, lo, hi) ==
    Then(st,
    IF lo > hi THEN st
    ELSE IF lo = hi THEN similarity_node(st, activated_nodes, lo)
    ELSE similarity_loop(similarity_loop(st, activated_nodes, lo, Mid(lo, hi)),
                         activated_nodes, Mid(lo, hi) + 1, hi))

\* wave_form_intelligent_edges with context_visited = NULL and stats = NULL,
\* as melvin_m_process_input calls it: no context edges
wave_form_intelligent_edges(st, activated_nodes) ==
    IF Len(activated_nodes) = 0 THEN st
    ELSE
    Let([s1 \in {wave_create_edges_from_coactivation(st, activated_nodes)} |->
    Let([s2 \in {similarity_loop(s1, activated_nodes, 1,
            compute_adaptive_sample_limit(Len(activated_nodes), 1,
                                          Len(activated_nodes)))} |->
    Let([s3 \in {IF Len(activated_nodes) >= 2
        THEN wave_form_universal_generalizations(s2, activated_nodes) ELSE s2} |->
        IF edge_is_node_isolated(s3, activated_nodes[1])
        THEN wave_create_homeostatic_edges(s3, activated_nodes[1])
        ELSE s3])])])

(***************************************************************************)
(* Wave propagation                                                        *)
(***************************************************************************)
\* largest r in lo .. hi with r * r <= n
RECURSIVE ISqrtBin(_, _, _)
ISqrtBin(n, lo, hi) ==
    IF lo >= hi THEN lo
    ELSE Let([mid \in {(lo + hi + 1) \div 2} |->
             IF mid * mid <= n THEN ISqrtBin(n, mid, hi) ELSE ISqrtBin(n, lo, mid - 1)])

\* sqrtf, correctly rounded
FSqrt(a) ==
    IF a[1] <= 0 THEN FZero
    ELSE Let([k \in {IF (a[2] - (MantBits - 1)) % 2 = 0 THEN MantBits - 1 ELSE MantBits} |->
         Let([n \in {a[1] * (2 ^ k)} |->
         Let([r \in {ISqrtBin(n, 0, 2 ^ MantBits)} |->
             Norm(IF n - r * r > r THEN r + 1 ELSE r, (a[2] - k) \div 2)])])])

\* the propagation threshold of wave_propagate_from_node
propagation_threshold(st, node) ==
    Let([local_avg \in {node_get_local_outgoing_weight_avg(st, node)} |->
    Let([w \in {st.nh[node].weight} |->
        IF FPos(local_avg) THEN FDiv(local_avg, FAdd(local_avg, FOne))
        ELSE IF FPos(w) THEN FDiv(w, FAdd(w, FOne))
        ELSE FZero])])

\* sum of squared differences between the outgoing weights and their average
weight_variance(st, out, out_avg) ==
    LET Sq(x) == FMul(x, x) IN
        SumF(Array([i \in 1 .. Len(out) |-> Sq(FSub(st.eh[out[i]].weight, out_avg))]))

\* the relative activation threshold of wave_propagate_from_node
edge_activation_threshold(st, node, max_edge_output) ==
    Let([out \in {st.nh[node].outgoing_edges} |->
    Let([out_avg \in {node_get_local_outgoing_weight_avg(st, node)} |->
    Let([local_std \in {IF Len(out) > 1 /\ FPos(out_avg)
        THEN FSqrt(FDiv(weight_variance(st, out, out_avg),
                        FInt(Len(out))))
        ELSE FZero} |->
    Let([raw_factor \in {IF FPos(local_std) /\ FPos(out_avg)
        THEN FDiv(local_std, out_avg)
        ELSE FDiv(FOne, FAdd(FInt(Len(out)), FOne))} |->
    Let([exploration_factor \in {IF FGt(raw_factor, FOne) THEN FOne ELSE raw_factor} |->
    Let([exploration_reduction \in {FDiv(exploration_factor, FAdd(exploration_factor, FOne))} |->
        FMul(max_edge_output, FSub(FOne, exploration_reduction))])])])])])])

\* the largest of the outputs, 0 when none is positive
max_output(edge_outputs) ==
    Let([vs \in {{FZero} \cup {edge_outputs[i] : i \in 1 .. Len(edge_outputs)}} |->
        CHOOSE m \in vs : \A v \in vs : ~FLt(m, v)])

\* outgoing edge i in the activation loop of wave_propagate_from_node;
\* acc = Ret(state, activated)
activate_edge(acc, node, edge_outputs, threshold, i) ==
    Let([st \in {acc.st} |->
    Let([edge \in {st.nh[node].outgoing_edges[i]} |->
        IF st.eh[edge].to_node # NULL /\ FGe(edge_outputs[i], threshold)
        THEN Ret(edge_update_weight_local([st EXCEPT !.eh[edge].activation = TRUE], edge),
                 Append(acc.r, st.eh[edge].to_node))
        ELSE acc])])

RECURSIVE activate_edges(_, _, _, _, _, _)
activate_edges(acc, node, edge_outputs, threshold, lo, hi) ==
    Then(acc,
    IF lo > hi THEN acc
    ELSE IF lo = hi THEN activate_edge(acc, node, edge_outputs, threshold, lo)
    ELSE activate_edges(activate_edges(acc, node, edge_outputs, threshold, lo, Mid(lo, hi)),
                        node, edge_outputs, threshold, Mid(lo, hi) + 1, hi))

\* wave_propagate_from_node: Ret(state, activated nodes); <<>> stands for NULL
wave_propagate_from_node(st, node) ==
    IF node = NULL THEN Ret(st, <<>>)
    ELSE
    Let([a \in {node_compute_activation_strength(st, node)} |->
    Let([s1 \in {[a.st EXCEPT !.nh[node].activation_strength = a.r]} |->
    Let([out \in {s1.nh[node].outgoing_edges} |->
    Let([edge_outputs \in {Array([i \in 1 .. Len(out) |->
            edge_transform_activation(s1, out[i], a.r)])} |->
    Let([max_edge_output \in {max_output(edge_outputs)} |->
    Let([threshold \in {edge_activation_threshold(s1, node, max_edge_output)} |->
    Let([act \in {activate_edges(Ret(s1, <<>>), node, edge_outputs, threshold, 1, Len(out))} |->
        IF FLt(a.r, propagation_threshold(s1, node))
        THEN Ret(node_update_weight_local(s1, node), <<>>)
        ELSE IF Len(out) = 0 THEN Ret(node_update_weight_local(s1, node), <<>>)
        ELSE IF Len(act.r) > 0 THEN Ret(node_update_weight_local(act.st, node), act.r)
        ELSE act])])])])])])])

\* every newly activated node joins the next wave front
joins_next_front_always(visited, activated_node) == TRUE

\* whether a newly activated node joins the next wave front
joins_next_front(visited, activated_node) == activated_node \notin visited

\* whether a newly activated node is tracked as co-activated: the test the
\* code makes after the node was added to the visited set
joins_co_activated(visited, activated_node) == activated_node \notin visited

\* node j of the nodes activated by one node of the wave front;
\* acc = [st, visited, next, co_activated, current_energy]
newly_activated_node(acc, newly_activated, j) ==
    Let([activated_node \in {newly_activated[j]} |->
    Let([energy \in {FAdd(acc.current_energy, acc.st.nh[activated_node].weight)} |->
    Let([a \in {node_compute_activation_strength(acc.st, activated_node)} |->
    Let([s1 \in {[a.st EXCEPT !.nh[activated_node].activation_strength = a.r]} |->
    Let([s2 \in {node_update_weight_local(s1, activated_node)} |->
    Let([joins \in {joins_next_front(acc.visited, activated_node)} |->
    Let([visited \in {IF joins THEN acc.visited \cup {activated_node} ELSE acc.visited} |->
        [acc EXCEPT !.st = s2, !.visited = visited,
         !.next = IF joins THEN Append(@, activated_node) ELSE @,
         !.co_activated = IF joins_co_activated(visited, activated_node)
                          THEN Append(@, activated_node)
                          ELSE @,
         !.current_energy = energy]])])])])])])])

RECURSIVE newly_activated_loop(_, _, _, _)
newly_activated_loop(acc, newly_activated, lo, hi) ==
    Then(acc,
    IF lo > hi THEN acc
    ELSE IF lo = hi THEN newly_activated_node(acc, newly_activated, lo)
    ELSE newly_activated_loop(newly_activated_loop(acc, newly_activated, lo, Mid(lo, hi)),
                              newly_activated, Mid(lo, hi) + 1, hi))

\* node i of the wave front; activation and weight were computed by the
\* batch operations when the front was batched
wave_front_node(acc, wave_front, i) ==
    Let([current_node \in {wave_front[i]} |->
    Let([a \in {node_compute_activation_strength(acc.st, current_node)} |->
    Let([s1 \in {IF acc.batched THEN acc.st
                 ELSE [a.st EXCEPT !.nh[current_node].activation_strength = a.r]} |->
    Let([s2 \in {IF acc.batched THEN s1 ELSE node_update_weight_local(s1, current_node)} |->
    Let([pr \in {wave_propagate_from_node(s2, current_node)} |->
        IF current_node = NULL THEN acc
        ELSE newly_activated_loop([acc EXCEPT !.st = pr.st], pr.r, 1, Len(pr.r))])])])])])

\* the loop over the wave front
RECURSIVE wave_front_loop(_, _, _, _)
wave_front_loop(acc, wave_front, lo, hi) ==
    Then(acc,
    IF lo > hi THEN acc
    ELSE IF lo = hi THEN wave_front_node(acc, wave_front, lo)
    ELSE wave_front_loop(wave_front_loop(acc, wave_front, lo, Mid(lo, hi)),
                         wave_front, Mid(lo, hi) + 1, hi))

RECURSIVE update_initial_weights(_, _, _, _)
update_initial_weights(st, initial_nodes, lo, hi) ==
    Then(st,
    IF lo > hi THEN st
    ELSE IF lo = hi THEN node_update_weight_local(st, initial_nodes[lo])
    ELSE update_initial_weights(update_initial_weights(st, initial_nodes, lo, Mid(lo, hi)),
                                initial_nodes, Mid(lo, hi) + 1, hi))

\* sum of the weights of the nodes of the wave front
front_energy(st, wave_front) ==
    SumF(Array([i \in 1 .. Len(wave_front) |-> st.nh[wave_front[i]].weight]))

\* melvin_gpu_cuda_init: the stub of a build without CUDA
melvin_gpu_cuda_init == FALSE

\* melvin_gpu_init: whether the context it creates reports the accelerator
melvin_gpu_init == melvin_gpu_cuda_init

\* melvin_gpu_is_available of a context
melvin_gpu_is_available(gpu_ctx) == gpu_ctx.gpu_available

\* the largest wave front the batch operations are not used for
BatchFrontSize == 8

\* cpu_batch_compute_activations (melvin_gpu_batch_compute_activations)
RECURSIVE cpu_batch_compute_activations(_, _, _, _)
cpu_batch_compute_activations(st, nodes, lo, hi) ==
    Then(st,
    IF lo > hi THEN st
    ELSE IF lo = hi
    THEN Let([a \in {node_compute_activation_strength(st, nodes[lo])} |->
             [a.st EXCEPT !.nh[nodes[lo]].activation_strength = a.r]])
    ELSE cpu_batch_compute_activations(
             cpu_batch_compute_activations(st, nodes, lo, Mid(lo, hi)),
             nodes, Mid(lo, hi) + 1, hi))

\* cpu_batch_update_weights (melvin_gpu_batch_update_weights)
cpu_batch_update_weights(st, nodes) == update_initial_weights(st, nodes, 1, Len(nodes))

\* are the batch operations used for a wave front
batched(gpu_ctx, wave_front) ==
    melvin_gpu_is_available(gpu_ctx) /\ Len(wave_front) > BatchFrontSize

\* wave_propagate_multi_step up to the head of its while loop
propagate_init(st, initial_nodes) ==
    Let([s1 \in {update_initial_weights(st, initial_nodes, 1, Len(initial_nodes))} |->
    Let([initial_energy \in {front_energy(s1, initial_nodes)} |->
        [st |-> s1, wave_front |-> initial_nodes,
         visited |-> {initial_nodes[i] : i \in 1 .. Len(initial_nodes)},
         initial_energy |-> initial_energy, previous_energy |-> initial_energy,
         step |-> 0, running |-> Len(initial_nodes) > 0,
         gpu_ctx |-> [gpu_available |-> melvin_gpu_init]]])])

\* The for loop over the wave front in one iteration of the while loop of
\* wave_propagate_multi_step: [st, visited, next, co_activated, current_energy]
front_pass(p) ==
    Let([batch \in {batched(p.gpu_ctx, p.wave_front)} |->
    Let([s1 \in {IF batch
                 THEN cpu_batch_update_weights(
                          cpu_batch_compute_activations(p.st, p.wave_front,
                                                        1, Len(p.wave_front)),
                          p.wave_front)
                 ELSE p.st} |->
        wave_front_loop([st |-> s1, visited |-> p.visited, next |-> <<>>,
                         co_activated |-> <<>>, current_energy |-> FZero,
                         batched |-> batch],
                        p.wave_front, 1, Len(p.wave_front))])])

\* is edge formation run on the co-activated nodes of the step
forms_edges(acc) == Len(acc.co_activated) > 1

\* the convergence test at the end of an iteration
converged(p, current_energy) ==
    Let([energy_change \in {IF FPos(p.previous_energy)
        THEN FDiv(FSub(current_energy, p.previous_energy), p.previous_energy)
        ELSE FZero} |->
    Let([energy_ratio \in {IF FPos(p.initial_energy)
        THEN FDiv(current_energy, p.initial_energy) ELSE FOne} |->
        FLt(energy_change, FZero) /\ FLt(energy_ratio, FSub(FOne, energy_change))])])

\* The rest of the iteration, after the loop over the wave front left acc.
\* Edge formation on the co-activated nodes is wave_form_intelligent_edges
\* (given the visited set and the wave statistics) followed by
\* wave_form_universal_combinations; the wave statistics are local to the call.
propagate_after(p, acc) ==
    Let([s1 \in {IF forms_edges(acc)
                 THEN wave_form_universal_combinations(
                          wave_form_intelligent_edges(acc.st, acc.co_activated),
                          acc.co_activated)
                 ELSE acc.st} |->
    Let([stop \in {converged(p, acc.current_energy)} |->
        [st |-> s1,
         wave_front |-> IF stop THEN p.wave_front ELSE acc.next,
         visited |-> acc.visited,
         initial_energy |-> IF stop THEN p.initial_energy ELSE acc.current_energy,
         previous_energy |-> IF stop THEN p.previous_energy ELSE acc.current_energy,
         step |-> p.step + 1,
         running |-> ~stop /\ Len(acc.next) > 0,
         gpu_ctx |-> p.gpu_ctx]])])

\* One iteration of the while loop of wave_propagate_multi_step
propagate_step(p) ==
    IF ~p.running THEN p ELSE propagate_after(p, front_pass(p))

\* k iterations of the while loop
RECURSIVE propagate_loop(_, _)
propagate_loop(p, k) ==
    Then(p,
    IF k <= 0 THEN p
    ELSE IF k = 1 THEN propagate_step(p)
    ELSE propagate_loop(propagate_loop(p, k \div 2), k - k \div 2))

\* wave_propagate_multi_step.  After the first step every wave front holds
\* nodes that were not visited before, so the loop ends within
\* node_count + 1 iterations.
wave_propagate_multi_step(st, initial_nodes) ==
    IF Len(initial_nodes) = 0 THEN st
    ELSE propagate_loop(propagate_init(st, initial_nodes), Len(st.nodes) + 1).st

(***************************************************************************)
(* Output collection.  The output buffer is [bytes, capacity, overflow];   *)
(* overflow records a memcpy past the end of the allocation.               *)
(***************************************************************************)
\* append a payload to the output buffer, growing it as the code does
output_append(output, payload) ==
    Let([new_size \in {Len(output.bytes) + Len(payload)} |->
    Let([capacity \in {IF new_size > output.capacity
        THEN IF output.capacity = 0 THEN Len(payload) * 2
             ELSE output.capacity * 2
        ELSE output.capacity} |->
        [bytes |-> output.bytes \o payload, capacity |-> capacity,
         overflow |-> output.overflow \/ new_size > capacity]])])

\* phase 1 with a node emitted at its first occurrence only
collect_node_once(st, direct_input_nodes, i, acc) ==
    Let([node \in {direct_input_nodes[i]} |->
        IF node = NULL \/ Len(st.nh[node].payload) = 0 \/ node \in acc.visited THEN acc
        ELSE [output |-> output_append(acc.output, st.nh[node].payload),
              visited |-> acc.visited \cup {node}]])

\* visited_set_add that records nothing
visited_set_forget(visited, node) == visited

\* visited_set_add: the set with the node in it
visited_set_add(visited, node) == visited \cup {node}

\* phase 1, node i of the direct input sequence; acc = [output, visited]
collect_node(st, direct_input_nodes, i, acc) ==
    Let([node \in {direct_input_nodes[i]} |->
        IF node = NULL \/ Len(st.nh[node].payload) = 0 THEN acc
        ELSE [output |-> output_append(acc.output, st.nh[node].payload),
              visited |-> visited_set_add(acc.visited, node)]])

\* phase 1: the payloads of the direct input sequence, in order
RECURSIVE collect_direct(_, _, _, _, _)
collect_direct(st, direct_input_nodes, lo, hi, acc) ==
    Then(acc,
    IF lo > hi THEN acc
    ELSE IF lo = hi THEN collect_node(st, direct_input_nodes, lo, acc)
    ELSE collect_direct(st, direct_input_nodes, Mid(lo, hi) + 1, hi,
                        collect_direct(st, direct_input_nodes, lo, Mid(lo, hi), acc)))

\* compute_adaptive_confidence_increase for a non-empty history
compute_adaptive_confidence_increase(observed_confidences) ==
    Let([count \in {Len(observed_confidences)} |->
    Let([changes \in {Array([i \in 1 .. count - 1 |->
            FAbs(FSub(observed_confidences[i + 1], observed_confidences[i]))])} |->
    Let([median_change \in {compute_median_adaptive(changes)} |->
    Let([range \in {FSub(compute_percentile_from_array(observed_confidences, 100),
             compute_percentile_from_array(observed_confidences, 0))} |->
    Let([denominator \in {FAdd(range, compute_adaptive_epsilon(range))} |->
        IF count >= 2
        THEN IF denominator[1] = 0 THEN FRat(2, 10)
             ELSE FMin(FDiv(median_change, denominator), FRat(2, 10))
        ELSE FRat(1, 10)])])])])])

\* the candidate edges of one extension step: unvisited targets only
extension_candidates(st, current, visited) ==
    SelectSeq(st.nh[current].outgoing_edges,
              LAMBDA e : st.eh[e].to_node # NULL /\ st.eh[e].to_node \notin visited)

\* second pass: <<best_sequential_edge, best_sequential_score>>; the first
\* candidate with the highest score wins
best_sequential(st, current, cands, local_outgoing_avg, max_transformed) ==
    Let([transformed \in {Array([i \in 1 .. Len(cands) |->
            edge_transform_activation(st, cands[i],
                st.nh[current].activation_strength)])} |->
    Let([score \in {Array([i \in 1 .. Len(cands) |->
            IF FPos(local_outgoing_avg) /\ FPos(max_transformed)
            THEN FDiv(transformed[i], max_transformed) ELSE transformed[i]])} |->
    Let([ok \in {{i \in 1 .. Len(cands) :
            FGt(transformed[i], FRat(2, 10)) /\ FGt(score[i], FZero)}} |->
        IF ok = {} THEN <<NULL, FZero>>
        ELSE
    Let([top \in {MinSet({i \in ok : \A k \in ok : ~FLt(score[i], score[k])})} |->
        <<cands[top], score[top]>>])])])])

\* phase 2, one step: follow the strongest learned continuation while
\* confidence holds; x = [output, visited, current, confidence_threshold,
\* confidence_history, local_outgoing_avg, done]
extend_step(st, x) ==
    IF x.done THEN x
    ELSE
    Let([cands \in {extension_candidates(st, x.current, x.visited)} |->
    Let([transformed \in {Array([i \in 1 .. Len(cands) |->
            edge_transform_activation(st, cands[i],
                st.nh[x.current].activation_strength)])} |->
    Let([max_transformed \in {max_output(transformed)} |->
    Let([best \in {best_sequential(st, x.current, cands, x.local_outgoing_avg,
                        max_transformed)} |->
        IF best[1] = NULL \/ FLt(best[2], x.confidence_threshold)
        THEN [x EXCEPT !.done = TRUE]
        ELSE
    Let([next \in {st.eh[best[1]].to_node} |->
    Let([history \in {Append(x.confidence_history, best[2])} |->
    Let([increase \in {compute_adaptive_confidence_increase(history)} |->
        IF next \in x.visited THEN [x EXCEPT !.done = TRUE]
        ELSE [output |-> IF Len(st.nh[next].payload) > 0
                         THEN output_append(x.output, st.nh[next].payload)
                         ELSE x.output,
              visited |-> visited_set_add(x.visited, next),
              current |-> next,
              confidence_threshold |-> FMul(x.confidence_threshold, FAdd(FOne, increase)),
              confidence_history |-> history,
              local_outgoing_avg |-> node_get_local_outgoing_weight_avg(st, next),
              done |-> FALSE]])])])])])])])

\* k steps of phase 2
RECURSIVE extend_output(_, _, _)
extend_output(st, x, k) ==
    Then(x,
    IF k <= 0 THEN x
    ELSE IF k = 1 THEN extend_step(st, x)
    ELSE extend_output(st, extend_output(st, x, k \div 2), k - k \div 2))

\* wave_collect_output up to the head of its while loop: phase 1 and the
\* locals of the extension; done when there is nothing to extend from
extension_start(st, direct_input_nodes) ==
    Let([empty \in {[bytes |-> <<>>, capacity |-> 0, overflow |-> FALSE]} |->
    Let([direct \in {collect_direct(st, direct_input_nodes, 1, Len(direct_input_nodes),
                       [output |-> empty, visited |-> {}])} |->
    Let([last_node \in {IF Len(direct_input_nodes) = 0 THEN NULL
                         ELSE direct_input_nodes[Len(direct_input_nodes)]} |->
    Let([local_outgoing_avg \in {IF last_node = NULL THEN FZero
                                  ELSE node_get_local_outgoing_weight_avg(st, last_node)} |->
        [output |-> direct.output, visited |-> direct.visited,
         current |-> last_node,
         confidence_threshold |->
             IF FPos(local_outgoing_avg)
             THEN FDiv(local_outgoing_avg, FAdd(local_outgoing_avg, FOne))
             ELSE FZero,
         confidence_history |-> <<>>,
         local_outgoing_avg |-> local_outgoing_avg,
         done |-> last_node = NULL]])])])])

\* wave_collect_output: the output buffer
wave_collect_output(st, direct_input_nodes) ==
    extend_output(st, extension_start(st, direct_input_nodes), Len(st.nodes) + 1).output

(***************************************************************************)
(* The .m container (melvin_m.c).  The file is its header struct and the   *)
(* bytes that follow it; body[i] is the byte at offset HeaderSize + i - 1. *)
(* A buffer is the sequence of its leading bytes, all later bytes being 0. *)
(***************************************************************************)
HeaderSize == 104

UniversalCapacity == 1024

\* uint64_t n in little-endian byte order
LE8(n) == Array([i \in 1 .. 8 |-> IF i <= 4 THEN (n \div (256 ^ (i - 1))) % 256 ELSE 0])

\* the value of 8 little-endian bytes; -1 stands for any value of 2^24 or above
FromLE8(b) ==
    IF \E i \in 4 .. 8 : b[i] # 0 THEN 0 - 1
    ELSE b[1] + 256 * b[2] + 65536 * b[3]

\* the four bytes of a float in memory (IEEE 754 single, little-endian)
FloatBytes(a) ==
    Let([mag \in {Abs(a[1])} |->
    Let([top \in {a[2] + BitLen(mag) - 1} |->
    Let([exp \in {IF top < 0 - 126 THEN 0 ELSE top + 127} |->
    Let([wide \in {mag * 2 ^ (24 - BitLen(mag))} |->
    Let([sh \in {(0 - 126) - top} |->
    Let([frac \in {IF exp = 0 THEN wide \div (2 ^ sh) ELSE wide - 2 ^ 23} |->
    Let([sign \in {IF a[1] < 0 THEN 128 ELSE 0} |->
        IF a[1] = 0 THEN <<0, 0, 0, 0>>
        ELSE <<frac % 256, (frac \div 256) % 256,
               (exp % 2) * 128 + frac \div 65536, sign + exp \div 2>>])])])])])])])

\* the float held by four bytes; an all-ones exponent (infinity, NaN) does
\* not arise from the byte values of the model
BytesFloat(b) ==
    Let([exp \in {(b[4] % 128) * 2 + b[3] \div 128} |->
    Let([frac \in {(b[3] % 128) * 65536 + b[2] * 256 + b[1]} |->
    Let([sign \in {IF b[4] >= 128 THEN 0 - 1 ELSE 1} |->
        IF exp = 0 THEN Norm(sign * frac, 0 - 149)
        ELSE Norm(sign * (frac + 2 ^ 23), exp - 150)])])])

\* byte i of a buffer
BufByte(buf, i) == IF i <= Len(buf) THEN buf[i] ELSE 0

\* the first n bytes of a buffer
BufBytes(buf, n) == Array([i \in 1 .. n |-> BufByte(buf, i)])

\* a buffer without its trailing zero bytes
TrimZeros(buf) ==
    Let([used \in {{i \in 1 .. Len(buf) : buf[i] # 0}} |->
        IF used = {} THEN <<>> ELSE SubSeq(buf, 1, MaxSet(used))])

\* memcpy(buf, data, Len(data))
BufCopy(buf, data) ==
    IF Len(buf) <= Len(data) THEN data
    ELSE data \o SubSeq(buf, Len(data) + 1, Len(buf))

\* fseek(offset) then fwrite(bytes)
WriteAt(body, offset, bytes) ==
    Let([first \in {offset - HeaderSize + 1} |->
    Let([last \in {first + Len(bytes) - 1} |->
        Array([i \in 1 .. Max2(Len(body), last) |->
                  IF i >= first /\ i <= last THEN bytes[i - first + 1]
                  ELSE IF i <= Len(body) THEN body[i] ELSE 0])])])

\* fseek(offset) then fread of n bytes: the bytes, or <<>> at a short read
ReadAt(body, offset, n) ==
    Let([first \in {offset - HeaderSize + 1} |->
        IF n < 0 \/ first + n - 1 > Len(body) THEN <<>>
        ELSE SubSeq(body, first, first + n - 1)])

\* the concatenation of the sequences parts[lo .. hi]
RECURSIVE Flatten(_, _, _)
Flatten(parts, lo, hi) ==
    IF lo > hi THEN <<>>
    ELSE IF lo = hi THEN parts[lo]
    ELSE Flatten(parts, lo, Mid(lo, hi)) \o Flatten(parts, Mid(lo, hi) + 1, hi)

\* the bytes write_nodes puts at the nodes offset
write_nodes(st) ==
    LET Record(n) == st.nh[n].id \o FloatBytes(st.nh[n].activation_strength)
                     \o FloatBytes(st.nh[n].weight) \o FloatBytes(st.nh[n].bias)
                     \o LE8(Len(st.nh[n].payload)) \o st.nh[n].payload IN
        LE8(Len(st.nodes))
        \o Flatten(Array([i \in 1 .. Len(st.nodes) |-> Record(st.nodes[i])]),
                    1, Len(st.nodes))

\* the bytes write_edges puts at the edges offset
write_edges(st) ==
    LET Flag(b) == IF b THEN 1 ELSE 0 IN
    LET Record(e) == st.nh[st.eh[e].from_node].id \o st.nh[st.eh[e].to_node].id
                     \o <<Flag(st.eh[e].direction), Flag(st.eh[e].activation)>>
                     \o FloatBytes(st.eh[e].weight) IN
        LE8(Len(st.edges))
        \o Flatten(Array([i \in 1 .. Len(st.edges) |-> Record(st.edges[i])]),
                    1, Len(st.edges))

\* the bytes write_universal_input / write_universal_output put at their offset
write_universal(buf, size) == LE8(size) \o BufBytes(buf, size)

\* calculate_offsets
calculate_offsets(header) ==
    [header EXCEPT
        !.nodes_offset = HeaderSize,
        !.edges_offset = HeaderSize + 8,
        !.universal_input_offset = HeaderSize + 16,
        !.universal_output_offset = HeaderSize + 24 + header.universal_input_size]

\* the C string held by a char array: the bytes before the first NUL
CStr(b) ==
    Let([nul \in {{i \in 1 .. Len(b) : b[i] = 0}} |->
        IF nul = {} THEN b ELSE SubSeq(b, 1, MinSet(nul) - 1)])

\* strncpy(node->id, id, 9); node->id[8] = 0
copy_id(id) ==
    Array([i \in 1 .. 9 |-> IF i <= Len(CStr(id)) /\ i < 9 THEN id[i] ELSE 0])

\* One iteration of the loop of read_nodes.  x = [st, pos, count, i, ok]:
\* pos is the file offset of the next record.
read_node(body, x) ==
    Let([fixed \in {ReadAt(body, x.pos, 29)} |->
    Let([payload_size \in {FromLE8(SubSeq(fixed, 22, 29))} |->
    Let([payload \in {ReadAt(body, x.pos + 29, payload_size)} |->
    Let([cr \in {node_create(x.st, payload)} |->
    Let([s1 \in {[cr.st EXCEPT
           !.nh[cr.r].id = copy_id(SubSeq(fixed, 1, 9)),
           !.nh[cr.r].activation_strength = BytesFloat(SubSeq(fixed, 10, 13)),
           !.nh[cr.r].weight = BytesFloat(SubSeq(fixed, 14, 17)),
           !.nh[cr.r].bias = BytesFloat(SubSeq(fixed, 18, 21))]} |->
    Let([ar \in {graph_add_node(s1, cr.r)} |->
        IF ~x.ok \/ x.i >= x.count THEN x
        ELSE IF fixed = <<>> THEN [x EXCEPT !.ok = FALSE]
        ELSE IF payload_size # 0 /\ payload = <<>> THEN [x EXCEPT !.ok = FALSE]
        ELSE IF cr.r = NULL THEN [x EXCEPT !.st = cr.st, !.ok = FALSE]
        ELSE IF ~ar.r THEN [x EXCEPT !.st = node_free(ar.st, cr.r), !.ok = FALSE]
        ELSE [x EXCEPT !.st = ar.st, !.pos = x.pos + 29 + payload_size, !.i = x.i + 1]])])])])])])

\* k iterations of the loop of read_nodes
RECURSIVE read_node_loop(_, _, _)
read_node_loop(body, x, k) ==
    Then(x,
    IF k <= 0 THEN x
    ELSE IF k = 1 THEN read_node(body, x)
    ELSE read_node_loop(body, read_node_loop(body, x, k \div 2), k - k \div 2))

\* the most records of record_size bytes that the file holds from offset on
RecordsFrom(body, offset, record_size) ==
    Max2(0, (Len(body) - (offset - HeaderSize)) \div record_size)

\* read_nodes: Ret(state, success).  A count beyond what the file holds ends
\* in a short read.
read_nodes(st, body, offset) ==
    Let([head \in {ReadAt(body, offset, 8)} |->
    Let([node_count \in {FromLE8(head)} |->
    Let([most \in {RecordsFrom(body, offset + 8, 29) + 1} |->
    Let([x \in {read_node_loop(body,
            [st |-> st, pos |-> offset + 8,
             count |-> IF node_count < 0 THEN most ELSE node_count,
             i |-> 0, ok |-> TRUE],
            IF node_count < 0 THEN most ELSE Min2(node_count, most))} |->
        IF head = <<>> THEN Ret(st, FALSE) ELSE Ret(x.st, x.ok)])])])])

\* the last node of the graph whose id equals id as a C string, or NULL
find_node_by_id(st, id) ==
    Let([same \in {{j \in 1 .. Len(st.nodes) : CStr(st.nh[st.nodes[j]].id) = CStr(id)}} |->
        IF same = {} THEN NULL ELSE st.nodes[MaxSet(same)]])

\* read_edge as it would be if a record naming a missing endpoint ended the load
read_edge_rejecting(body, x) ==
    Let([rec \in {ReadAt(body, x.pos, 24)} |->
        IF ~x.ok \/ x.i >= x.count THEN x
        ELSE IF rec = <<>> THEN [x EXCEPT !.ok = FALSE]
        ELSE
        Let([from \in {find_node_by_id(x.st, SubSeq(rec, 1, 9))} |->
        Let([to \in {find_node_by_id(x.st, SubSeq(rec, 10, 18))} |->
            IF from = NULL \/ to = NULL THEN [x EXCEPT !.ok = FALSE]
            ELSE
            Let([cr \in {edge_create(x.st, from, to, rec[19] # 0)} |->
                IF cr.r = NULL THEN [x EXCEPT !.st = cr.st, !.pos = x.pos + 24, !.i = x.i + 1]
                ELSE [x EXCEPT !.st = graph_add_edge(cr.st, cr.r, from, to).st,
                               !.pos = x.pos + 24, !.i = x.i + 1]])])])])

\* One iteration of the loop of read_edges.  x = [st, pos, count, i, ok]
read_edge(body, x) ==
    Let([rec \in {ReadAt(body, x.pos, 24)} |->
    Let([from \in {find_node_by_id(x.st, SubSeq(rec, 1, 9))} |->
    Let([to \in {find_node_by_id(x.st, SubSeq(rec, 10, 18))} |->
    Let([cr \in {edge_create(x.st, from, to, rec[19] # 0)} |->
    Let([s1 \in {[cr.st EXCEPT !.eh[cr.r].activation = rec[20] # 0,
                      !.eh[cr.r].weight = BytesFloat(SubSeq(rec, 21, 24))]} |->
    Let([next \in {[x EXCEPT !.pos = x.pos + 24, !.i = x.i + 1]} |->
        IF ~x.ok \/ x.i >= x.count THEN x
        ELSE IF rec = <<>> THEN [x EXCEPT !.ok = FALSE]
        ELSE IF from = NULL \/ to = NULL THEN next
        ELSE IF cr.r = NULL THEN [next EXCEPT !.st = cr.st]
        ELSE [next EXCEPT !.st = graph_add_edge(s1, cr.r, from, to).st]])])])])])])

\* k iterations of the loop of read_edges
RECURSIVE read_edge_loop(_, _, _)
read_edge_loop(body, x, k) ==
    Then(x,
    IF k <= 0 THEN x
    ELSE IF k = 1 THEN read_edge(body, x)
    ELSE read_edge_loop(body, read_edge_loop(body, x, k \div 2), k - k \div 2))

\* read_edges: Ret(state, success)
read_edges(st, body, offset) ==
    Let([head \in {ReadAt(body, offset, 8)} |->
    Let([edge_count \in {FromLE8(head)} |->
    Let([most \in {RecordsFrom(body, offset + 8, 24) + 1} |->
    Let([x \in {read_edge_loop(body,
            [st |-> st, pos |-> offset + 8,
             count |-> IF edge_count < 0 THEN most ELSE edge_count,
             i |-> 0, ok |-> TRUE],
            IF edge_count < 0 THEN most ELSE Min2(edge_count, most))} |->
        IF head = <<>> THEN Ret(st, FALSE) ELSE Ret(x.st, x.ok)])])])])

\* read_universal_input / read_universal_output: [ok, size, data]
read_universal(body, offset) ==
    Let([head \in {ReadAt(body, offset, 8)} |->
    Let([data_size \in {FromLE8(head)} |->
    Let([data \in {ReadAt(body, offset + 8, data_size)} |->
        IF head = <<>> THEN [ok |-> FALSE, size |-> 0, data |-> <<>>]
        ELSE IF data_size = 0 THEN [ok |-> TRUE, size |-> 0, data |-> <<>>]
        ELSE IF data = <<>> THEN [ok |-> FALSE, size |-> 0, data |-> <<>>]
        ELSE [ok |-> TRUE, size |-> data_size, data |-> TrimZeros(data)]])])])

(***************************************************************************)
(* The state of the program                                                *)
(***************************************************************************)
VARIABLES
    graph,              \* the engine: node and edge heaps, the graph's lists,
                        \* the id counter of node_create, the allocation oracle
    header,             \* mfile->header
    universal_input,    \* mfile->universal_input
    universal_output,   \* mfile->universal_output
    is_dirty,           \* mfile->is_dirty
    is_open,            \* whether the MelvinMFile exists (created or opened)
    file,               \* the file on disk: [header, body]
    wave,               \* the loop state of a propagation in progress
    pool,               \* the worker pool and the array it processes
    collect,            \* the loop state of an output extension in progress
    before,             \* history: the engine as the last operation found it
    last,               \* history: the last operation and what it returned
    reps,               \* history: the process cycles of a fresh engine
    saved               \* history: the engine as it was last saved

vars == <<graph, header, universal_input, universal_output, is_dirty, is_open, file,
          wave, pool, collect, before, last, reps, saved>>

\* everything but the worker pool
engine_vars == <<graph, header, universal_input, universal_output, is_dirty, is_open, file,
                 wave, collect, before, last, reps, saved>>

mfile_vars == <<header, universal_input, universal_output, is_dirty, is_open, file>>

\* graph_create, with the static id counter of melvin.c at c
graph_create(c) ==
    [nh |-> <<>>, eh |-> <<>>, nodes |-> <<>>, node_capacity |-> 0, edges |-> <<>>,
     edge_capacity |-> 0, id_counter |-> c, alloc_n |-> 0, fail_at |-> 0]

\* the header melvin_m_create builds on a zeroed MelvinMFile
create_header ==
    [node_count |-> 0, edge_count |-> 0, universal_input_size |-> 0,
     universal_input_offset |-> 0, universal_output_size |-> 0,
     universal_output_offset |-> 0, nodes_offset |-> 0, edges_offset |-> 0,
     adaptation_count |-> 0]

no_wave == [running |-> FALSE, started |-> FALSE]

\* no array is being processed
no_pool == [phase |-> "idle"]

\* no output is being collected
no_collect == [running |-> FALSE, started |-> FALSE, steps |-> <<>>]

\* what the history keeps of an operation: its name, its input bytes, the
\* node sequence ingestion returned, whether an allocation was refused
Op(name, input, sequence, failed) ==
    [op |-> name, input |-> input, sequence |-> sequence, failed |-> failed]

no_op == Op("create", <<>>, <<>>, FALSE)

\* melvin_m_create on a new file
Init ==
    /\ graph = graph_create(0)
    /\ header = create_header
    /\ universal_input = <<>>
    /\ universal_output = <<>>
    /\ is_dirty = TRUE
    /\ is_open = TRUE
    /\ file = [header |-> create_header, body |-> <<>>]
    /\ wave = no_wave
    /\ pool = no_pool
    /\ collect = no_collect
    /\ before = graph_create(0)
    /\ last = no_op
    /\ reps = [fresh |-> TRUE, cycles |-> <<>>, work |-> 0]
    /\ saved = [valid |-> FALSE]

(***************************************************************************)
(* Bounds of the exploration                                               *)
(***************************************************************************)
\* the inputs a client writes: "a", "aa", "ab"
Inputs == {<<97>>, <<97, 97>>, <<97, 98>>}

\* the payloads a client adds directly: "a", "bc"
Payloads == {<<97>>, <<98, 99>>}

\* The work done in one run is bounded: processing costs one unit per input
\* byte, every other operation that changes the graph or the file a fixed
\* number of units; opening the file that a close left costs nothing.
MaxWork == 5

Cost(name) ==
    CASE name = "add_node" -> 2
      [] name = "add_edge" -> 2
      [] name = "save" -> 1
      [] name = "close" -> 1
      [] name = "open" -> 0

(***************************************************************************)
(* The operations of melvin_m.c                                            *)
(***************************************************************************)
\* the body of melvin_m_process_input after the output was cleared:
\* [st, sequence, output]
process_input(st, data) ==
    Let([r \in {wave_process_sequential_patterns(st, data)} |->
    Let([s2 \in {Then(r, wave_form_intelligent_edges(r.st, r.sequence))} |->
    Let([s3 \in {Then(s2, wave_propagate_multi_step(s2, r.sequence))} |->
    Let([out \in {Then(s3, wave_collect_output(s3, r.sequence))} |->
        Then(out, [st |-> s3, sequence |-> r.sequence, output |-> out])])])])])

\* the weights of the edges between the one-byte nodes of "hello" that follow
\* each other on the chain h->e, e->l, l->l, l->o, by edge address
ChainPairs == {<<104, 101>>, <<101, 108>>, <<108, 108>>, <<108, 111>>}

ChainEdges(st) ==
    {e \in 1 .. Len(st.eh) :
        /\ \E k \in 1 .. Len(st.edges) : st.edges[k] = e
        /\ \E pr \in ChainPairs :
               /\ st.nh[st.eh[e].from_node].payload = <<pr[1]>>
               /\ st.nh[st.eh[e].to_node].payload = <<pr[2]>>}

\* may an operation that costs n units still run
Affordable(n) == reps.work + n <= MaxWork

\* melvin_m_universal_input_write
UniversalInputWrite(data) ==
    /\ is_open
    /\ last.op # "universal_input_write"
    /\ universal_input' = BufCopy(universal_input, data)
    /\ header' = [header EXCEPT !.universal_input_size = Len(data)]
    /\ is_dirty' = TRUE
    /\ before' = graph
    /\ last' = Op("universal_input_write", data, <<>>, FALSE)
    /\ UNCHANGED <<graph, universal_output, is_open, file, wave, pool, collect, reps, saved>>

\* melvin_m_process_input on the input the client wrote
ProcessInput ==
    /\ is_open
    /\ last.op = "universal_input_write"
    /\ \E data \in {BufBytes(universal_input, header.universal_input_size)} :
       \E pi \in {Value(process_input(Arm(graph, 0), data))} :
        /\ graph' = pi.st
        /\ universal_output' = pi.output.bytes
        /\ header' = [header EXCEPT !.universal_output_size = Len(pi.output.bytes)]
        /\ is_dirty' = TRUE
        /\ before' = graph
        /\ last' = Op("process_input", data, pi.sequence, pi.output.overflow)
        /\ reps' = [reps EXCEPT !.work = @ + Len(data),
                                !.cycles = Append(@, [input |-> data,
                                                      node_count |-> Len(pi.st.nodes)])]
        /\ UNCHANGED <<universal_input, is_open, file, wave, pool, collect, saved>>

\* melvin_m_add_node
AddNode(payload_data, k) ==
    /\ is_open
    /\ \E cr \in {Value(node_create(Arm(graph, k), payload_data))} :
       \E ar \in {Value(graph_add_node(cr.st, cr.r))} :
        /\ graph' = Disarm(IF cr.r = NULL THEN cr.st
                           ELSE IF ar.r THEN ar.st ELSE Value(node_free(ar.st, cr.r)))
        /\ is_dirty' = (is_dirty \/ (cr.r # NULL /\ ar.r))
        /\ before' = graph
        /\ last' = Op("add_node", payload_data, <<>>, cr.r = NULL \/ ~ar.r)
        /\ reps' = [reps EXCEPT !.fresh = FALSE, !.work = @ + Cost("add_node")]
        /\ UNCHANGED <<header, universal_input, universal_output, is_open, file, wave, pool, collect,
                       saved>>

\* melvin_m_add_edge between two nodes of the graph
AddEdge(from, to, k) ==
    /\ is_open
    /\ \E cr \in {Value(edge_create(Arm(graph, k), from, to, TRUE))} :
       \E ar \in {Value(graph_add_edge(cr.st, cr.r, from, to))} :
        /\ graph' = Disarm(IF cr.r = NULL THEN cr.st
                           ELSE IF ar.r THEN ar.st ELSE Value(edge_free(ar.st, cr.r)))
        /\ is_dirty' = (is_dirty \/ (cr.r # NULL /\ ar.r))
        /\ before' = graph
        /\ last' = Op("add_edge", <<>>, <<from, to>>, cr.r = NULL \/ ~ar.r)
        /\ reps' = [reps EXCEPT !.fresh = FALSE, !.work = @ + Cost("add_edge")]
        /\ UNCHANGED <<header, universal_input, universal_output, is_open, file, wave, pool, collect,
                       saved>>

\* the header melvin_m_save writes
save_header ==
    calculate_offsets([header EXCEPT
        !.node_count = Len(graph.nodes),
        !.edge_count = Len(graph.edges),
        !.universal_input_size = UniversalCapacity,
        !.universal_output_size = UniversalCapacity,
        !.adaptation_count = @ + 1])

\* the file after melvin_m_save wrote the header and the four sections
save_file ==
    Let([h \in {save_header} |->
    Let([b1 \in {WriteAt(file.body, h.nodes_offset, Value(write_nodes(graph)))} |->
    Let([b2 \in {WriteAt(b1, h.edges_offset, Value(write_edges(graph)))} |->
    Let([b3 \in {WriteAt(b2, h.universal_input_offset,
                write_universal(universal_input, h.universal_input_size))} |->
    Let([b4 \in {WriteAt(b3, h.universal_output_offset,
                write_universal(universal_output, h.universal_output_size))} |->
        [header |-> h, body |-> b4]])])])])])

\* melvin_m_save
Save ==
    /\ is_open
    /\ header' = save_header
    /\ file' = save_file
    /\ is_dirty' = FALSE
    /\ saved' = [valid |-> TRUE, graph |-> graph]
    /\ before' = graph
    /\ last' = Op("save", <<>>, <<>>, FALSE)
    /\ reps' = [reps EXCEPT !.work = @ + Cost("save")]
    /\ UNCHANGED <<graph, universal_input, universal_output, is_open, wave, pool, collect>>

\* melvin_m_close: saves a dirty file, then frees the graph and the buffers
Close ==
    /\ is_open
    /\ header' = IF is_dirty THEN save_header ELSE header
    /\ file' = IF is_dirty THEN save_file ELSE file
    /\ saved' = IF is_dirty THEN [valid |-> TRUE, graph |-> graph] ELSE saved
    /\ is_dirty' = FALSE
    /\ is_open' = FALSE
    /\ graph' = graph_create(graph.id_counter)
    /\ universal_input' = <<>>
    /\ universal_output' = <<>>
    /\ before' = graph
    /\ last' = Op("close", <<>>, <<>>, FALSE)
    /\ reps' = [reps EXCEPT !.work = @ + Cost("close")]
    /\ UNCHANGED <<wave, pool, collect>>

\* melvin_m_open of the file, in the process that wrote it or in a new one
\* (where the id counter of node_create starts again at 0)
Open(new_process) ==
    /\ ~is_open
    /\ \E h \in {file.header} :
       \E g0 \in {graph_create(IF new_process THEN 0 ELSE graph.id_counter)} :
       \E rn \in {Value(read_nodes(g0, file.body, h.nodes_offset))} :
       \E re \in {Value(read_edges(rn.st, file.body, h.edges_offset))} :
       \E ri \in {read_universal(file.body, h.universal_input_offset)} :
       \E ro \in {read_universal(file.body, h.universal_output_offset)} :
       \E ok \in {rn.r /\ re.r /\ ri.ok /\ ro.ok} :
        /\ is_open' = ok
        /\ graph' = IF ok THEN re.st
                    ELSE graph_create(IF rn.r THEN re.st.id_counter ELSE rn.st.id_counter)
        /\ header' = IF ok THEN h ELSE header
        /\ universal_input' = IF ok THEN ri.data ELSE <<>>
        /\ universal_output' = IF ok THEN ro.data ELSE <<>>
        /\ is_dirty' = FALSE
        /\ before' = graph
        /\ last' = Op("open", <<>>, <<>>, ~ok)
        /\ reps' = [reps EXCEPT !.fresh = FALSE, !.work = @ + Cost("open")]
        /\ UNCHANGED <<file, wave, pool, collect, saved>>

\* a client of melvin_m.c: any operation the work budget still allows
Next ==
    \/ \E data \in Inputs : Affordable(Len(data)) /\ UniversalInputWrite(data)
    \/ ProcessInput
    \/ \E payload_data \in Payloads : Affordable(Cost("add_node")) /\ AddNode(payload_data, 0)
    \/ \E from, to \in {graph.nodes[i] : i \in 1 .. Len(graph.nodes)} :
           Affordable(Cost("add_edge")) /\ AddEdge(from, to, 0)
    \/ Affordable(Cost("save")) /\ Save
    \/ Affordable(Cost("close")) /\ Close
    \/ \E new_process \in BOOLEAN : Affordable(Cost("open")) /\ Open(new_process)

Spec == Init /\ [][Next]_vars

(***************************************************************************)
(* Repetition: one input fed again and again into a fresh engine           *)
(***************************************************************************)
\* the inputs that are repeated: "a", "aa", "ab", "aba", "abab", "hello"
RepInputs ==
    {<<97>>, <<97, 97>>, <<97, 98>>, <<97, 98, 97>>, <<97, 98, 97, 98>>,
     <<104, 101, 108, 108, 111>>}

\* the number of repetitions of the input
MaxReps == 10

\* the client writes the input it wrote before, or chooses it the first time
RepWrite(data) ==
    /\ Len(reps.cycles) < MaxReps
    /\ IF reps.cycles = <<>> THEN TRUE ELSE reps.cycles[1].input = data
    /\ UniversalInputWrite(data)

\* "hello", and the beginning of it that is fed after the repetitions: "hel"
Hello == <<104, 101, 108, 108, 111>>

Hel == <<104, 101, 108>>

\* after the last repetition of "hello" the client writes "hel"
RepProbe ==
    /\ Len(reps.cycles) = MaxReps
    /\ reps.cycles[1].input = Hello
    /\ UniversalInputWrite(Hel)

NextRep ==
    \/ \E data \in RepInputs : RepWrite(data)
    \/ RepProbe
    \/ ProcessInput

SpecRep == Init /\ [][NextRep]_vars

(***************************************************************************)
(* The engine used directly: the functions of melvin.c called one by one,  *)
(* each with at most one allocation request refused                        *)
(***************************************************************************)
\* the inputs ingested: "ab", "aba"
EngineInputs == {<<97, 98>>, <<97, 98, 97>>}

\* the requests of a handler that may be refused (0: none is)
MaxFail == 4

\* the work of a run of the engine, in the units of Cost and EngineCost
MaxEngineWork == 6

EngineCost(name) ==
    CASE name = "ingest" -> 3
      [] name = "coactivation" -> 1
      [] name = "generalize" -> 2
      [] name = "combinations" -> 1
      [] name = "form_edges" -> 3
      [] name = "propagate" -> 2

EngineAffordable(n) == reps.work + n <= MaxEngineWork

\* the node arrays the engine functions are called with: pairs of nodes of
\* the graph, and the sequence the last ingestion returned
NodeArrays ==
    {<<graph.nodes[i], graph.nodes[j]>> : i, j \in 1 .. Len(graph.nodes)}
        \cup (IF last.op = "ingest" /\ last.sequence # <<>> THEN {last.sequence} ELSE {})

\* what an engine step leaves alone, and its history
EngineStep(name, input, sequence, st) ==
    /\ graph' = Disarm(st)
    /\ before' = graph
    /\ last' = Op(name, input, sequence, Refused(st))
    /\ reps' = [reps EXCEPT !.fresh = FALSE, !.work = @ + EngineCost(name),
                            !.cycles = IF name = "ingest"
                                       THEN Append(@, [input |-> input,
                                                       node_count |-> Len(st.nodes),
                                                       sequence |-> sequence])
                                       ELSE @]
    /\ UNCHANGED <<header, universal_input, universal_output, is_dirty, is_open, file,
                   wave, pool, collect, saved>>

\* wave_process_sequential_patterns
Ingest(data, k) ==
    \E r \in {Value(wave_process_sequential_patterns(Arm(graph, k), data))} :
        EngineStep("ingest", data, r.sequence, r.st)

\* wave_create_edges_from_coactivation
Coactivation(activated_nodes, k) ==
    EngineStep("coactivation", <<>>, activated_nodes,
               Value(wave_create_edges_from_coactivation(Arm(graph, k), activated_nodes)))

\* wave_form_universal_generalizations
Generalize(co_activated, k) ==
    EngineStep("generalize", <<>>, co_activated,
               Value(wave_form_universal_generalizations(Arm(graph, k), co_activated)))

\* wave_form_intelligent_edges
FormEdges(activated_nodes, k) ==
    EngineStep("form_edges", <<>>, activated_nodes,
               Value(wave_form_intelligent_edges(Arm(graph, k), activated_nodes)))

\* wave_propagate_multi_step
Propagate(initial_nodes) ==
    EngineStep("propagate", <<>>, initial_nodes,
               Value(wave_propagate_multi_step(Arm(graph, 0), initial_nodes)))

NextEngine ==
    \/ \E payload_data \in Payloads, k \in 0 .. MaxFail :
           EngineAffordable(Cost("add_node")) /\ AddNode(payload_data, k)
    \/ \E from, to \in {graph.nodes[i] : i \in 1 .. Len(graph.nodes)}, k \in 0 .. MaxFail :
           EngineAffordable(Cost("add_edge")) /\ AddEdge(from, to, k)
    \/ \E data \in EngineInputs, k \in 0 .. MaxFail :
           EngineAffordable(EngineCost("ingest")) /\ Ingest(data, k)
    \/ \E activated_nodes \in NodeArrays, k \in 0 .. MaxFail :
           EngineAffordable(EngineCost("coactivation")) /\ Coactivation(activated_nodes, k)
    \/ \E co_activated \in NodeArrays, k \in 0 .. MaxFail :
           EngineAffordable(EngineCost("generalize")) /\ Generalize(co_activated, k)
    \/ \E activated_nodes \in NodeArrays, k \in 0 .. MaxFail :
           EngineAffordable(EngineCost("form_edges")) /\ FormEdges(activated_nodes, k)
    \/ \E initial_nodes \in NodeArrays :
           EngineAffordable(EngineCost("propagate")) /\ Propagate(initial_nodes)

SpecEngine == Init /\ [][NextEngine]_vars

(***************************************************************************)
(* Training: a graph is fed one input again and again, each ingestion      *)
(* followed by edge formation on the nodes it returned                     *)
(***************************************************************************)
\* the longest input of the exploration of single inputs
MaxWordLen == 4

\* the byte strings over an alphabet, of length 1 to MaxWordLen
Words(alphabet) == UNION {[1 .. n -> alphabet] : n \in 1 .. MaxWordLen}

\* the inputs ingested: the strings over "a", "b", and "hello"
TrainInputs == Words({97, 98}) \cup {Hello}

\* the number of times the input is ingested
TrainReps == 3

TrainIngest(data) ==
    /\ Len(reps.cycles) < TrainReps
    /\ IF last.op = "ingest" THEN last.sequence = <<>> ELSE TRUE
    /\ IF reps.cycles = <<>> THEN TRUE ELSE reps.cycles[1].input = data
    /\ Ingest(data, 0)

TrainFormEdges ==
    /\ last.op = "ingest"
    /\ last.sequence # <<>>
    /\ FormEdges(last.sequence, 0)

NextTrain ==
    \/ \E data \in TrainInputs : TrainIngest(data)
    \/ TrainFormEdges

SpecTrain == Init /\ [][NextTrain]_vars

(***************************************************************************)
(* Propagation step by step: the calls of a process cycle one by one       *)
(* (ingestion, edge formation, multi-step propagation), the while loop of  *)
(* wave_propagate_multi_step one iteration at a time.  wave holds the      *)
(* locals of the call and, as history, what each iteration did.            *)
(***************************************************************************)
\* the inputs ingested: the words over "a", "b"
PropInputs == UNION {[1 .. n -> {97, 98}] : n \in 1 .. MaxWordLen}

\* the number of cycles
PropReps == 1

\* the seed arrays propagation is started from: the sequence the ingestion
\* returned, and the pairs of nodes of the graph (a node may be listed twice)
SeedArrays ==
    {<<graph.nodes[i], graph.nodes[j]>> : i, j \in 1 .. Len(graph.nodes)}
        \cup (IF reps.cycles = <<>> THEN {} ELSE {reps.cycles[Len(reps.cycles)].sequence})

\* the locals of the while loop, with the engine
LoopState ==
    [st |-> graph, wave_front |-> wave.wave_front, visited |-> wave.visited,
     initial_energy |-> wave.initial_energy, previous_energy |-> wave.previous_energy,
     step |-> wave.step, running |-> wave.running, gpu_ctx |-> wave.gpu_ctx]

PropIngest(data) ==
    /\ ~wave.running
    /\ Len(reps.cycles) < PropReps
    /\ last.op \in {"create", "propagate"}
    /\ Ingest(data, 0)

PropFormEdges ==
    /\ last.op = "ingest"
    /\ FormEdges(last.sequence, 0)

\* wave_propagate_multi_step up to the head of its while loop
PropStart(initial_nodes) ==
    /\ last.op = "form_edges"
    /\ Len(initial_nodes) > 0
    /\ \E p \in {Value(propagate_init(graph, initial_nodes))} :
        /\ graph' = p.st
        /\ wave' = [running |-> p.running, started |-> TRUE, wave_front |-> p.wave_front,
                    visited |-> p.visited, initial_energy |-> p.initial_energy,
                    previous_energy |-> p.previous_energy, step |-> p.step,
                    gpu_ctx |-> p.gpu_ctx, seed_energy |-> p.initial_energy, node_count |-> Len(graph.nodes),
                    steps |-> <<>>]
        /\ before' = graph
        /\ last' = Op("propagate", <<>>, initial_nodes, FALSE)
        /\ UNCHANGED <<header, universal_input, universal_output, is_dirty, is_open, file,
                       reps, saved, pool, collect>>

\* one iteration of the while loop of wave_propagate_multi_step
PropStep ==
    /\ wave.running
    /\ \E p \in {LoopState} :
       \E acc \in {Value(front_pass(p))} :
       \E q \in {Value(propagate_after(p, acc))} :
        /\ graph' = q.st
        /\ wave' = [wave EXCEPT
               !.running = q.running, !.wave_front = q.wave_front,
               !.visited = q.visited, !.initial_energy = q.initial_energy,
               !.previous_energy = q.previous_energy, !.step = q.step,
               !.steps = Append(@, [expanded |-> p.wave_front,
                                    newly_activated |-> acc.next,
                                    co_activated |-> acc.co_activated,
                                    formed |-> forms_edges(acc),
                                    current_energy |-> acc.current_energy,
                                    previous_energy |-> p.previous_energy,
                                    initial_energy |-> p.initial_energy,
                                    converged |-> converged(p, acc.current_energy)])]
        /\ UNCHANGED <<header, universal_input, universal_output, is_dirty, is_open, file,
                       before, last, reps, saved, pool, collect>>

NextProp ==
    \/ \E data \in PropInputs : PropIngest(data)
    \/ PropFormEdges
    \/ \E initial_nodes \in SeedArrays : PropStart(initial_nodes)
    \/ PropStep

SpecProp == Init /\ [][NextProp]_vars

(***************************************************************************)
(* The accelerator: the same calls, with multi-step propagation run once   *)
(* under a context that reports the accelerator and once under one that    *)
(* does not.  wave holds the two engines the runs leave; the engine goes   *)
(* on as the context of the build leaves it.                               *)
(***************************************************************************)
\* wave_propagate_multi_step under a context whose gpu_available is given
propagate_reporting(gpu_available, st, initial_nodes) ==
    propagate_loop([propagate_init(st, initial_nodes)
                        EXCEPT !.gpu_ctx.gpu_available = gpu_available],
                   Len(st.nodes) + 1).st

\* inputs whose sequences are wave fronts of more than BatchFrontSize nodes
LongInputs == {w \o w \o w : w \in [1 .. 3 -> {97, 98}]}

GpuInputs == Words({97, 98}) \cup LongInputs

GpuIngest(data) ==
    /\ last.op = "create"
    /\ Ingest(data, 0)

GpuFormEdges ==
    /\ last.op = "ingest"
    /\ FormEdges(last.sequence, 0)

GpuPropagate ==
    /\ last.op = "form_edges"
    /\ Len(last.sequence) > 0
    /\ \E available \in {Value(propagate_reporting(TRUE, graph, last.sequence))} :
       \E unavailable \in {Value(propagate_reporting(FALSE, graph, last.sequence))} :
        /\ graph' = (IF melvin_gpu_init THEN available ELSE unavailable)
        /\ wave' = [running |-> FALSE, started |-> TRUE,
                    available |-> available, unavailable |-> unavailable,
                    batched |-> batched([gpu_available |-> TRUE], last.sequence)]
        /\ before' = graph
        /\ last' = Op("propagate", <<>>, last.sequence, FALSE)
        /\ UNCHANGED <<header, universal_input, universal_output, is_dirty, is_open, file,
                       reps, saved, pool, collect>>

NextGpu ==
    \/ \E data \in GpuInputs : GpuIngest(data)
    \/ GpuFormEdges
    \/ GpuPropagate

SpecGpu == Init /\ [][NextGpu]_vars

(***************************************************************************)
(* The worker pool (pipeline/melvin_threads.c).  thread_pool_process_array *)
(* hands every worker the whole array; each worker computes its own slice  *)
(* and walks it, one item a step, the workers interleaved.  An item is a   *)
(* number or NULL; process_func records its call in the slot of the index  *)
(* it was given.  pthread_create is taken to succeed.                      *)
(***************************************************************************)
\* the largest thread count of a pool
MaxThreads == 3

\* the longest array
MaxItems == 4

\* the arrays: every entry an item or NULL
ItemArrays == UNION {[1 .. n -> {NULL, 1}] : n \in 1 .. MaxItems}

\* the slice of worker thread_id (from 0), as worker_thread computes it:
\* the indexes start_idx .. end_idx - 1, counted from 0
start_idx(item_count, total_threads, thread_id) ==
    thread_id * (item_count \div total_threads)

\* a slice of items_per_thread items for the last worker too
end_idx_even(item_count, total_threads, thread_id) ==
    start_idx(item_count, total_threads, thread_id) + (item_count \div total_threads)

end_idx(item_count, total_threads, thread_id) ==
    IF thread_id = total_threads - 1 THEN item_count
    ELSE start_idx(item_count, total_threads, thread_id) + (item_count \div total_threads)

\* process_func on items[i] (i from 0): the call is counted in slot i
process_func(calls, items, i) ==
    IF items[i + 1] # NULL THEN [calls EXCEPT ![i + 1] = @ + 1] ELSE calls

\* the sequential loop over items i .. item_count - 1
RECURSIVE process_sequentially(_, _, _)
process_sequentially(calls, items, i) ==
    IF i >= Len(items) THEN calls
    ELSE process_sequentially(process_func(calls, items, i), items, i + 1)

no_calls(items) == [i \in 1 .. Len(items) |-> 0]

\* thread_pool_process_array up to the creation of the threads; refused
\* says that the calloc of the worker contexts failed
PoolProcessArray(thread_count, items, refused) ==
    /\ pool.phase = "idle"
    /\ pool' = IF Len(items) < thread_count \/ refused
               THEN [phase |-> "done", thread_count |-> thread_count, items |-> items,
                     calls |-> process_sequentially(no_calls(items), items, 0),
                     threads |-> <<>>]
               ELSE [phase |-> "running", thread_count |-> thread_count, items |-> items,
                     calls |-> no_calls(items),
                     threads |-> [t \in 1 .. thread_count |->
                         [i |-> start_idx(Len(items), thread_count, t - 1),
                          end_idx |-> end_idx(Len(items), thread_count, t - 1)]]]
    /\ UNCHANGED engine_vars

\* one iteration of the for loop of worker_thread
WorkerStep(t) ==
    /\ pool.phase = "running"
    /\ t \in 1 .. pool.thread_count
    /\ pool.threads[t].i < pool.threads[t].end_idx
    /\ pool' = [pool EXCEPT !.calls = process_func(@, pool.items, pool.threads[t].i),
                            !.threads[t].i = @ + 1]
    /\ UNCHANGED engine_vars

\* the pthread_join loop: every worker has returned
PoolJoin ==
    /\ pool.phase = "running"
    /\ \A t \in 1 .. pool.thread_count : pool.threads[t].i >= pool.threads[t].end_idx
    /\ pool' = [pool EXCEPT !.phase = "done"]
    /\ UNCHANGED engine_vars

NextPool ==
    \/ \E thread_count \in 1 .. MaxThreads, items \in ItemArrays, refused \in BOOLEAN :
           PoolProcessArray(thread_count, items, refused)
    \/ \E t \in 1 .. MaxThreads : WorkerStep(t)
    \/ PoolJoin

SpecPool == Init /\ [][NextPool]_vars

(***************************************************************************)
(* Output collection step by step: a graph is built by one ingestion and   *)
(* some runs of the co-activation law on its sequence, and then            *)
(* wave_collect_output is called on arrays of its nodes, the while loop of *)
(* the extension one iteration at a time.  collect holds the locals of the *)
(* call and, as history, what each iteration found and did.                *)
(***************************************************************************)
\* the inputs ingested: "aa", "ab", "aba"
CollectInputs == {<<97, 97>>, <<97, 98>>, <<97, 98, 97>>}

\* the number of runs of the co-activation law
CollectReps == 3

\* the arrays output is collected from: one or two nodes of the graph
DirectArrays ==
    {<<graph.nodes[i]>> : i \in 1 .. Len(graph.nodes)}
        \cup {<<graph.nodes[i], graph.nodes[j]>> : i, j \in 1 .. Len(graph.nodes)}

\* the outgoing edges of a node that lead somewhere
leading_edges(st, current) ==
    {e \in {st.nh[current].outgoing_edges[i] : i \in 1 .. Len(st.nh[current].outgoing_edges)} :
        st.eh[e].to_node # NULL}

\* the strongest outgoing edges of a node: those whose transformed
\* activation no other outgoing edge exceeds
strongest_edges(st, current) ==
    {e \in leading_edges(st, current) :
        \A o \in leading_edges(st, current) :
            ~FLt(edge_transform_activation(st, e, st.nh[current].activation_strength),
                 edge_transform_activation(st, o, st.nh[current].activation_strength))}

CollectIngest(data) ==
    /\ last.op = "create"
    /\ Ingest(data, 0)

CollectCoactivation ==
    /\ last.op \in {"ingest", "coactivation"}
    /\ ~collect.started
    /\ reps.work < EngineCost("ingest") + CollectReps * EngineCost("coactivation")
    /\ Coactivation(last.sequence, 0)

\* wave_collect_output up to the head of its while loop
CollectStart(direct_input_nodes) ==
    /\ last.op = "coactivation"
    /\ ~collect.running
    /\ \E x \in {Value(extension_start(graph, direct_input_nodes))} :
        collect' = [running |-> ~x.done, started |-> TRUE,
                    direct_input_nodes |-> direct_input_nodes,
                    x |-> x, steps |-> <<>>]
    /\ UNCHANGED <<graph, header, universal_input, universal_output, is_dirty, is_open,
                   file, wave, pool, before, last, reps, saved>>

\* one iteration of the while loop of wave_collect_output
CollectStep ==
    /\ collect.running
    /\ \E x \in {collect.x} :
       \E y \in {Value(extend_step(graph, x))} :
        collect' = [collect EXCEPT
            !.running = ~y.done,
            !.x = y,
            !.steps = Append(@, [current |-> x.current,
                                 visited |-> x.visited,
                                 strongest |-> strongest_edges(graph, x.current),
                                 appended |-> SubSeq(y.output.bytes,
                                                     Len(x.output.bytes) + 1,
                                                     Len(y.output.bytes)),
                                 ended |-> y.done])]
    /\ UNCHANGED <<graph, header, universal_input, universal_output, is_dirty, is_open,
                   file, wave, pool, before, last, reps, saved>>

NextCollect ==
    \/ \E data \in CollectInputs : CollectIngest(data)
    \/ CollectCoactivation
    \/ \E direct_input_nodes \in DirectArrays : CollectStart(direct_input_nodes)
    \/ CollectStep

SpecCollect == Init /\ [][NextCollect]_vars

(***************************************************************************)
(* Hierarchy: after one ingestion the co-activation law and the            *)
(* combination law are run, in any order, on pairs of nodes of the graph   *)
(***************************************************************************)
\* the inputs ingested: "aa", "ab"
HierInputs == {<<97, 97>>, <<97, 98>>}

\* the number of runs of the two laws
HierReps == 3

HierIngest(data) ==
    /\ last.op = "create"
    /\ Ingest(data, 0)

HierAffordable ==
    /\ last.op # "create"
    /\ reps.work < EngineCost("ingest") + HierReps

HierCoactivation(activated_nodes) ==
    /\ HierAffordable
    /\ Coactivation(activated_nodes, 0)

\* wave_form_universal_combinations
HierCombinations(co_activated) ==
    /\ HierAffordable
    /\ EngineStep("combinations", <<>>, co_activated,
                  Value(wave_form_universal_combinations(Arm(graph, 0), co_activated)))

NextHier ==
    \/ \E data \in HierInputs : HierIngest(data)
    \/ \E activated_nodes \in NodeArrays : HierCoactivation(activated_nodes)
    \/ \E co_activated \in NodeArrays : HierCombinations(co_activated)

SpecHier == Init /\ [][NextHier]_vars

(***************************************************************************)
(* Blank nodes: two similar nodes are generalized into a blank node, one   *)
(* byte is ingested to seed the exploration, edges are added, and a second *)
(* one-byte input is ingested, which the blank node may accept.            *)
(***************************************************************************)
BlankPayloads == {<<98, 99>>, <<98, 97>>, <<97, 99>>}

\* the nodes that are added and generalized
BlankPair == 2

BlankSeed == <<97>>

BlankInputs == {<<98>>, <<99>>}

\* the edges added between the two ingestions
BlankEdges == 2

\* the propagations after the second ingestion
BlankProps == 3

\* the work done when the seed has been ingested
BlankSetUp ==
    BlankPair * Cost("add_node")
        + EngineCost("generalize") + EngineCost("ingest")

\* melvin_m_add_node of the payloads that are generalized
BlankAddNode(payload_data) ==
    /\ last.op \in {"create", "add_node"}
    /\ Len(graph.nodes) < BlankPair
    /\ AddNode(payload_data, 0)

\* wave_form_universal_generalizations over the nodes added
BlankGeneralize ==
    /\ last.op = "add_node"
    /\ Len(graph.nodes) = BlankPair
    /\ Generalize(graph.nodes, 0)

\* wave_process_sequential_patterns of the seed, then of an input
BlankIngest(data) ==
    /\ \/ last.op = "generalize" /\ data = BlankSeed
       \/ last.op \in {"ingest", "add_edge"} /\ Len(reps.cycles) = 1 /\ data \in BlankInputs
    /\ Ingest(data, 0)

\* melvin_m_add_edge between the two ingestions (in NextBlank: from the
\* seed node, or from a node to itself)
BlankAddEdge(from, to) ==
    /\ last.op \in {"ingest", "add_edge"}
    /\ Len(reps.cycles) = 1
    /\ reps.work < BlankSetUp + BlankEdges * Cost("add_edge")
    /\ AddEdge(from, to, 0)

\* wave_propagate_multi_step from a node that has a weight, after the input
BlankPropagate(initial_nodes) ==
    /\ last.op \in {"ingest", "propagate"}
    /\ Len(reps.cycles) = 2
    /\ reps.work < BlankSetUp + BlankEdges * Cost("add_edge") + EngineCost("ingest")
                        + BlankProps * EngineCost("propagate")
    /\ Propagate(initial_nodes)

NextBlank ==
    \/ \E payload_data \in BlankPayloads : BlankAddNode(payload_data)
    \/ BlankGeneralize
    \/ \E data \in {BlankSeed} \cup BlankInputs : BlankIngest(data)
    \/ \E from, to \in {graph.nodes[i] : i \in 1 .. Len(graph.nodes)} :
           /\ from = to \/ FPos(graph.nh[from].activation_strength)
           /\ BlankAddEdge(from, to)
    \/ \E n \in {graph.nodes[i] : i \in 1 .. Len(graph.nodes)} :
           FPos(graph.nh[n].weight) /\ BlankPropagate(<<n>>)

SpecBlank == Init /\ [][NextBlank]_vars

(***************************************************************************)
(* Two unrelated inputs: a fresh engine is fed one input and then another  *)
(* that has no byte in common with it, each in its own process cycle       *)
(***************************************************************************)
\* the first input is over "a", "b", the second over "c", "d"
FirstInputs == Words({97, 98})

SecondInputs == Words({99, 100})

PairWrite(data) ==
    /\ Len(reps.cycles) < 2
    /\ data \in (IF reps.cycles = <<>> THEN FirstInputs ELSE SecondInputs)
    /\ UniversalInputWrite(data)

NextPair ==
    \/ \E data \in FirstInputs \cup SecondInputs : PairWrite(data)
    \/ ProcessInput

SpecPair == Init /\ [][NextPair]_vars

(***************************************************************************)
(* Properties of loading (melvin_m_open)                                   *)
(***************************************************************************)
\* the file was written from saved.graph and has just been loaded
Loaded == last.op = "open" /\ is_open /\ saved.valid

\* the identity of the source and of the target of edge e of engine st
EndpointIds(st, e) == <<st.nh[st.eh[e].from_node].id, st.nh[st.eh[e].to_node].id>>

\* C11: on load every stored edge is rewired by identity lookup: its source
\* is the loaded node whose identity equals the stored source id, and its
\* target the loaded node whose identity equals the stored target id
C11_EdgesRewiredByIdentity ==
    Loaded =>
        /\ Len(graph.edges) = Len(saved.graph.edges)
        /\ \A k \in 1 .. Len(saved.graph.edges) :
               EndpointIds(graph, graph.edges[k])
                   = EndpointIds(saved.graph, saved.graph.edges[k])

\* the edge records of the file, as many as its edges section announces
EdgeRecords ==
    Let([offset \in {file.header.edges_offset} |->
    Let([edge_count \in {FromLE8(ReadAt(file.body, offset, 8))} |->
        Array([k \in 1 .. edge_count |-> ReadAt(file.body, offset + 8 + 24 * (k - 1), 24)])])])

\* the identities, as C strings, that the loaded nodes have
LoadedIds == {CStr(graph.nh[graph.nodes[j]].id) : j \in 1 .. Len(graph.nodes)}

\* does an edge record name an endpoint identity that no loaded node has
MissingEndpoint(rec) ==
    \/ CStr(SubSeq(rec, 1, 9)) \notin LoadedIds
    \/ CStr(SubSeq(rec, 10, 18)) \notin LoadedIds

\* what an edge record stores: the endpoint identities, the flags, the weight
RecordEdge(rec) ==
    <<CStr(SubSeq(rec, 1, 9)), CStr(SubSeq(rec, 10, 18)), rec[19] # 0, rec[20] # 0,
      BytesFloat(SubSeq(rec, 21, 24))>>

\* the same of a loaded edge
LoadedEdge(e) ==
    <<CStr(graph.nh[graph.eh[e].from_node].id), CStr(graph.nh[graph.eh[e].to_node].id),
      graph.eh[e].direction, graph.eh[e].activation, graph.eh[e].weight>>

BytesOf(data) == {data[i] : i \in 1 .. Len(data)}

\* the nodes of the graph that carry bytes of an input, and only such bytes
NodesOfInput(data) ==
    {n \in {graph.nodes[i] : i \in 1 .. Len(graph.nodes)} :
        /\ graph.nh[n].payload # <<>>
        /\ BytesOf(graph.nh[n].payload) \subseteq BytesOf(data)}

\* is there an edge of the graph between nodes a and b, in either direction
Linked(a, b) ==
    \E k \in 1 .. Len(graph.edges) :
        \/ graph.eh[graph.edges[k]].from_node = a /\ graph.eh[graph.edges[k]].to_node = b
        \/ graph.eh[graph.edges[k]].from_node = b /\ graph.eh[graph.edges[k]].to_node = a

\* the nodes without payload (blank and generalization nodes)
BlankNodes ==
    {n \in {graph.nodes[i] : i \in 1 .. Len(graph.nodes)} : graph.nh[n].payload = <<>>}

\* both inputs of the pair were processed
PairDone == reps.fresh /\ Len(reps.cycles) = 2 /\ last.op = "process_input"

\* C13: after two inputs without a common byte were ingested, each in its
\* own cycle, no node without payload has an edge to or from a node of the
\* first input and also an edge to or from a node of the second
C13_NoBlankBridge ==
    PairDone =>
        ~\E b \in BlankNodes :
            /\ \E n1 \in NodesOfInput(reps.cycles[1].input) : Linked(b, n1)
            /\ \E n2 \in NodesOfInput(reps.cycles[2].input) : Linked(b, n2)

\* both inputs were ingested and the graph holds nodes of each
C13_Witness ==
    /\ PairDone
    /\ BytesOf(reps.cycles[1].input) \cap BytesOf(reps.cycles[2].input) = {}
    /\ NodesOfInput(reps.cycles[1].input) # {}
    /\ NodesOfInput(reps.cycles[2].input) # {}
    /\ BlankNodes # {}

(***************************************************************************)
(* Properties of the output                                                *)
(***************************************************************************)
\* the output of the last process cycle
Output == BufBytes(universal_output, header.universal_output_size)

\* does sequence s begin with sequence p
BeginsWith(s, p) == Len(s) >= Len(p) /\ SubSeq(s, 1, Len(p)) = p

\* "hello" was processed MaxReps times by a fresh engine, then "hel"
HelProcessed ==
    /\ reps.fresh
    /\ last.op = "process_input"
    /\ Len(reps.cycles) = MaxReps + 1
    /\ reps.cycles[1].input = Hello
    /\ last.input = Hel

\* C14: after the repetitions of "hello", the cycle with input "hel" either
\* produces no output, or an output whose bytes after the input prefix "hel"
\* begin with "lo"
C14_HelContinuesChain ==
    HelProcessed =>
        \/ Output = <<>>
        \/ /\ BeginsWith(Output, Hel)
           /\ BeginsWith(SubSeq(Output, Len(Hel) + 1, Len(Output)), <<108, 111>>)

(***************************************************************************)
(* Properties of training                                                  *)
(***************************************************************************)
\* the input was ingested, and edges were formed on what the ingestion returned
Trained == last.op = "form_edges" /\ reps.cycles # <<>>

\* C15: after the same input was ingested repeatedly, each ingestion followed
\* by edge formation, no two nodes of the graph have the same non-empty payload
C15_NoDuplicatePayload ==
    Trained =>
        \A i, j \in 1 .. Len(graph.nodes) :
            (i # j /\ graph.nh[graph.nodes[i]].payload # <<>>)
                => graph.nh[graph.nodes[i]].payload # graph.nh[graph.nodes[j]].payload

\* the input was ingested a second time into a graph that holds its nodes,
\* and the ingestion returned nodes
C15_Witness ==
    /\ Trained
    /\ Len(reps.cycles) >= 2
    /\ last.sequence # <<>>
    /\ Len(graph.nodes) >= 2

(***************************************************************************)
(* Properties of multi-step propagation                                    *)
(***************************************************************************)
\* the nodes propagated from so far in the call, in order
RECURSIVE ExpansionsUpTo(_)
ExpansionsUpTo(k) ==
    IF k = 0 THEN <<>> ELSE ExpansionsUpTo(k - 1) \o wave.steps[k].expanded

Expansions == IF wave.started THEN ExpansionsUpTo(Len(wave.steps)) ELSE <<>>

\* Claim C16.  Within one call of multi-step propagation no node is
\* propagated from more than once, so that the number of expansions of the
\* call is at most the node count.
C16_EachNodeExpandedOnce ==
    /\ \A i, j \in 1 .. Len(Expansions) : Expansions[i] = Expansions[j] => i = j
    /\ Len(Expansions) <= Len(graph.nodes)

C19_FormationOnNewlyActivated ==
    wave.started =>
        \A k \in 1 .. Len(wave.steps) :
            Len(wave.steps[k].newly_activated) > 1 =>
                /\ wave.steps[k].formed
                /\ wave.steps[k].co_activated = wave.steps[k].newly_activated

\* the energy of step k has stopped growing: it is above neither the energy
\* of the step before nor the energy of the seeds
StoppedGrowing(k) ==
    /\ ~FGt(wave.steps[k].current_energy, wave.steps[k].previous_energy)
    /\ ~FGt(wave.steps[k].current_energy, wave.seed_energy)

\* Claim C20.  Multi-step propagation stops at the first step whose energy
\* has stopped growing relative to the step before and to the seeds: no pass
\* goes on after such a step, which bounds the number of its steps.
C20_StopsWhenEnergyStopsGrowing ==
    wave.started =>
        \A k \in 1 .. Len(wave.steps) :
            StoppedGrowing(k) => (k = Len(wave.steps) /\ ~wave.running)

(***************************************************************************)
(* Properties of the worker pool                                           *)
(***************************************************************************)
\* the indexes (from 0) of the slice of worker t (from 1)
Slice(t) ==
    start_idx(Len(pool.items), pool.thread_count, t - 1)
        .. end_idx(Len(pool.items), pool.thread_count, t - 1) - 1

\* Claim C18.  The slices of the workers are pairwise disjoint and together
\* cover every index of the array, and when the array has been processed
\* the processing function was called exactly once for every item that is
\* not NULL, as by the sequential loop.
C18_SlicesPartitionTheArray ==
    /\ pool.phase = "running" =>
        /\ \A t, u \in 1 .. pool.thread_count : t # u => Slice(t) \cap Slice(u) = {}
        /\ UNION {Slice(t) : t \in 1 .. pool.thread_count} = 0 .. Len(pool.items) - 1
    /\ pool.phase = "done" =>
        /\ \A i \in 1 .. Len(pool.items) :
               pool.calls[i] = IF pool.items[i] # NULL THEN 1 ELSE 0
        /\ pool.calls = process_sequentially(no_calls(pool.items), pool.items, 0)

\* three workers have processed an array of four items, the last of them
\* the two items of its longer slice
C18_Witness ==
    /\ pool.phase = "done"
    /\ pool.thread_count = 3
    /\ Len(pool.items) = 4
    /\ pool.threads # <<>>
    /\ \A i \in 1 .. 4 : pool.items[i] # NULL

(***************************************************************************)
(* Properties of the engine                                                *)
(***************************************************************************)
\* the sum of the weights of the edges of a list, added in list order
WeightSum(st, edge_list) ==
    SumF([i \in 1 .. Len(edge_list) |-> st.eh[edge_list[i]].weight])

\* Claim C1.  For every node of the graph the cached outgoing_weight_sum is
\* the sum of the weights of the edges in its outgoing list and the cached
\* incoming_weight_sum the sum of those in its incoming list (up to the
\* rounding of the additions).
C1_WeightSumsMatchEdges ==
    \A j \in 1 .. Len(graph.nodes) :
        /\ FNear(graph.nh[graph.nodes[j]].outgoing_weight_sum,
                 WeightSum(graph, graph.nh[graph.nodes[j]].outgoing_edges))
        /\ FNear(graph.nh[graph.nodes[j]].incoming_weight_sum,
                 WeightSum(graph, graph.nh[graph.nodes[j]].incoming_edges))

\* Claim C2.  Multi-step propagation always terminates: whatever the seeds
\* and the graph, a call makes at most as many iterations of its loop as the
\* graph has nodes, each of them a finite pass over the wave front.
C2_PropagationTerminates ==
    wave.started =>
        /\ Len(wave.steps) <= wave.node_count
        /\ wave.running => Len(wave.steps) < wave.node_count

\* a call seeded with one node listed twice, on a graph with a self-loop,
\* has ended after more than one iteration
C2_Witness ==
    /\ wave.started
    /\ ~wave.running
    /\ Len(wave.steps) > 1
    /\ Len(last.sequence) = 2
    /\ last.sequence[1] = last.sequence[2]
    /\ \E k \in 1 .. Len(graph.edges) :
           graph.eh[graph.edges[k]].from_node = graph.eh[graph.edges[k]].to_node

\* the payloads of the nodes of a sequence, concatenated in sequence order
SequencePayloads(st, sequence) ==
    Flatten([i \in 1 .. Len(sequence) |-> st.nh[sequence[i]].payload], 1, Len(sequence))

StoredFields(st, j) ==
    [payload |-> st.nh[st.nodes[j]].payload,
     activation_strength |-> st.nh[st.nodes[j]].activation_strength,
     weight |-> st.nh[st.nodes[j]].weight,
     bias |-> st.nh[st.nodes[j]].bias]

\* Claim C4.  The graph loaded from a saved file has the node count and the
\* edge count of the graph that was saved and, node by node in order, the
\* same payload bytes and the same numeric fields.
C4_SaveLoadRoundTrip ==
    Loaded =>
        /\ Len(graph.nodes) = Len(saved.graph.nodes)
        /\ Len(graph.edges) = Len(saved.graph.edges)
        /\ \A j \in 1 .. Len(saved.graph.nodes) :
               StoredFields(graph, j) = StoredFields(saved.graph, j)

\* Claim C5.  The sequence that the ingestion of a non-empty input returns
\* mirrors the input: the payloads of its nodes, concatenated in sequence
\* order, are the input bytes.
C5_SequenceMirrorsInput ==
    (last.op \in {"ingest", "process_input"} /\ ~last.failed /\ last.input # <<>>) =>
        SequencePayloads(graph, last.sequence) = last.input

\* the nodes and the edges in the lists of a graph
NodesIn(st) == {st.nodes[j] : j \in 1 .. Len(st.nodes)}

EdgesIn(st) == {st.edges[k] : k \in 1 .. Len(st.edges)}

\* Claim C8.  The graph is append-only: an engine operation leaves every
\* node and every edge that was in the graph in it, alive, so that neither
\* count decreases; a node it created and rolled back when an allocation
\* failed was not in the graph before.
C8_AppendOnly ==
    /\ NodesIn(before) \subseteq NodesIn(graph)
    /\ EdgesIn(before) \subseteq EdgesIn(graph)
    /\ Len(graph.nodes) >= Len(before.nodes)
    /\ Len(graph.edges) >= Len(before.edges)
    /\ \A n \in NodesIn(before) : graph.nh[n].live
    /\ \A e \in EdgesIn(before) : graph.eh[e].live

\* a generalization node was created and, an allocation having failed, rolled
\* back: it is on the heap, freed, and not in the graph
C8_Witness ==
    /\ last.op = "generalize"
    /\ last.failed
    /\ Len(before.nodes) > 1
    /\ \E n \in 1 .. Len(graph.nh) :
           n > Len(before.nh) /\ ~graph.nh[n].live /\ n \notin NodesIn(graph)

\* Claim C9.  At every point the nodes of the graph have pairwise distinct
\* identities, through node creations, saves, loads and the node creations
\* that follow a load.
C9_IdentitiesDistinct ==
    \A i, j \in 1 .. Len(graph.nodes) :
        graph.nh[graph.nodes[i]].id = graph.nh[graph.nodes[j]].id => i = j

\* the edge lists and the cached weight sums of the nodes that were in the
\* graph are as they were before the operation
EdgeListsKept ==
    \A n \in NodesIn(before) :
        /\ graph.nh[n].outgoing_edges = before.nh[n].outgoing_edges
        /\ graph.nh[n].incoming_edges = before.nh[n].incoming_edges

WeightSumsKept ==
    \A n \in NodesIn(before) :
        /\ graph.nh[n].outgoing_weight_sum = before.nh[n].outgoing_weight_sum
        /\ graph.nh[n].incoming_weight_sum = before.nh[n].incoming_weight_sum

\* Claim C10.  When an allocation fails while the generalization node of a
\* pair, or the hierarchy node of an edge that already exists, is created
\* and wired, the construction is rolled back: the node list, the edge list
\* and every node's edge lists are those of before the operation, and after
\* a generalization every cached weight sum as well (the strengthening that
\* precedes a hierarchy node changes the sums by itself).
C10_FailedConstructionRolledBack ==
    /\ (last.op = "generalize" /\ last.failed /\ Len(last.sequence) = 2) =>
           /\ graph.nodes = before.nodes
           /\ graph.edges = before.edges
           /\ EdgeListsKept
           /\ WeightSumsKept
    /\ (/\ last.op = "coactivation" /\ last.failed /\ Len(last.sequence) = 2
        /\ node_find_edge_to(before, last.sequence[1], last.sequence[2]) # NULL) =>
           /\ graph.nodes = before.nodes
           /\ graph.edges = before.edges
           /\ EdgeListsKept

(***************************************************************************)
(* Properties of repetition                                                *)
(***************************************************************************)
\* Claim C6.  While "hello" is processed ten times by a fresh engine, every
\* edge on the chain h->e, e->l, l->l, l->o weighs strictly more after a
\* repetition than it did before that repetition.
C6_ChainWeightsGrow ==
    (last.op = "process_input" /\ last.input = Hello /\ reps.cycles[1].input = Hello) =>
        \A e \in ChainEdges(before) :
            FGt(graph.eh[e].weight, before.eh[e].weight)

\* Claim C7.  When one short input is processed again and again by a fresh
\* engine the node count plateaus: among the MaxReps repetitions there is
\* one from which on every further repetition leaves the node count as it is.
C7_NodeCountPlateaus ==
    (Len(reps.cycles) = MaxReps /\ \A j \in 1 .. MaxReps : reps.cycles[j].input = reps.cycles[1].input) =>
        \E k \in 1 .. MaxReps - 1 :
            \A j \in k .. MaxReps : reps.cycles[j].node_count = reps.cycles[k].node_count
(***************************************************************************)
(* Properties of output collection                                         *)
(***************************************************************************)
\* the nodes the edges of a set lead to
Targets(st, edge_set) == {st.eh[e].to_node : e \in edge_set}

\* Claim C21.  In every iteration of the extension in which the strongest
\* outgoing edge of the current node leads to a node that is in the input
\* sequence or was appended before, the extension ends and appends nothing.
C21_RevisitStopsExtension ==
    \A k \in 1 .. Len(collect.steps) :
        (/\ collect.steps[k].strongest # {}
         /\ Targets(graph, collect.steps[k].strongest) \subseteq collect.steps[k].visited) =>
            /\ collect.steps[k].ended
            /\ collect.steps[k].appended = <<>>

\* Claim C22.  The extension of wave_collect_output stops: on a graph of n
\* nodes it has ended after at most n + 1 iterations of its loop, so it
\* appends at most n payloads, whatever cycles and self-loops the graph has.
C22_CollectionTerminates ==
    collect.started =>
        /\ Len(collect.steps) <= Len(graph.nodes) + 1
        /\ collect.running => Len(collect.steps) <= Len(graph.nodes)

\* an extension that appended a payload has ended at a node with an edge
\* back into the nodes already emitted
C22_Witness ==
    /\ collect.started
    /\ ~collect.running
    /\ Len(collect.steps) > 1
    /\ collect.steps[1].appended # <<>>
    /\ Targets(graph, leading_edges(graph, collect.x.current)) \cap collect.x.visited # {}

(***************************************************************************)
(* Properties of hierarchy formation                                       *)
(***************************************************************************)
\* the hierarchy nodes of the graph that carry a payload
CombinedNodes(payload) ==
    {m \in NodesIn(graph) : graph.nh[m].abstraction_level > 0 /\ graph.nh[m].payload = payload}

\* the ordered pairs of nodes of the graph whose payloads, one after the
\* other, are a payload
ParentPairs(payload) ==
    {pair \in NodesIn(graph) \X NodesIn(graph) :
        graph.nh[pair[1]].payload \o graph.nh[pair[2]].payload = payload}

\* Claim C23.  However often the co-activation law and the combination law
\* are run, at most one hierarchy node is created for an ordered pair of
\* nodes (A, B): the graph never holds more hierarchy nodes of one payload
\* than it holds ordered pairs of nodes whose payloads combine to it.
C23_OneCombinationPerPair ==
    \A n \in NodesIn(graph) :
        Cardinality(CombinedNodes(graph.nh[n].payload))
            <= Cardinality(ParentPairs(graph.nh[n].payload))

\* the hierarchy nodes the last operation formed
Formed == {c \in NodesIn(graph) \ NodesIn(before) : graph.nh[c].abstraction_level > 0}

\* the last operation ran one of the two laws on one pair and no allocation
\* failed
PairCombined ==
    /\ last.op \in {"coactivation", "combinations"}
    /\ Len(last.sequence) = 2
    /\ ~last.failed

\* is there an edge from -> to of the weight that edge e has
CopyOf(e, from, to) ==
    \E k \in 1 .. Len(graph.nh[from].outgoing_edges) :
        /\ graph.eh[graph.nh[from].outgoing_edges[k]].to_node = to
        /\ graph.eh[graph.nh[from].outgoing_edges[k]].weight = graph.eh[e].weight

\* the edges of an edge list
ListedIn(edge_list) == {edge_list[k] : k \in 1 .. Len(edge_list)}

\* Claim C24.  When a hierarchy node C is formed from the parents A and B,
\* then for every edge X->A and every edge X->B that existed at formation
\* there is an edge X->C of the same weight, and for every edge B->Y that
\* existed there is an edge C->Y of the same weight.
C24_HierarchyKeepsConnectivity ==
    PairCombined =>
        \A c \in Formed :
            /\ \A e \in ListedIn(before.nh[last.sequence[1]].incoming_edges)
                        \cup ListedIn(before.nh[last.sequence[2]].incoming_edges) :
                   CopyOf(e, graph.eh[e].from_node, c)
            /\ \A e \in ListedIn(before.nh[last.sequence[2]].outgoing_edges) :
                   CopyOf(e, c, graph.eh[e].to_node)

\* a hierarchy node was formed from parents of which the first had incoming
\* edges and the second had incoming and outgoing edges
C24_Witness ==
    /\ PairCombined
    /\ Formed # {}
    /\ before.nh[last.sequence[1]].incoming_edges # <<>>
    /\ before.nh[last.sequence[2]].incoming_edges # <<>>
    /\ before.nh[last.sequence[2]].outgoing_edges # <<>>
    /\ last.sequence[1] # last.sequence[2]

(***************************************************************************)
(* Properties of the co-activation law                                     *)
(***************************************************************************)
\* the edges from -> to in the outgoing list of from
EdgesFromTo(st, from, to) ==
    {e \in ListedIn(st.nh[from].outgoing_edges) : st.eh[e].to_node = to}

\* Claim C25.  After the co-activation law ran on a sequence without a
\* failed allocation, every two consecutive entries (a, b), a = b included,
\* are joined by an edge a->b; where such an edge existed before, the edges
\* a->b are the ones that existed, none of them weighs less and the first
\* of them weighs more than before.
C25_CoactivationJoinsConsecutive ==
    (last.op = "coactivation" /\ ~last.failed) =>
        \A i \in 1 .. Len(last.sequence) - 1 :
            /\ EdgesFromTo(graph, last.sequence[i], last.sequence[i + 1]) # {}
            /\ EdgesFromTo(before, last.sequence[i], last.sequence[i + 1]) # {} =>
                /\ EdgesFromTo(graph, last.sequence[i], last.sequence[i + 1])
                       = EdgesFromTo(before, last.sequence[i], last.sequence[i + 1])
                /\ \A e \in EdgesFromTo(before, last.sequence[i], last.sequence[i + 1]) :
                       FGe(graph.eh[e].weight, before.eh[e].weight)
                /\ FGt(graph.eh[node_find_edge_to(before, last.sequence[i],
                                                  last.sequence[i + 1])].weight,
                       before.eh[node_find_edge_to(before, last.sequence[i],
                                                   last.sequence[i + 1])].weight)

(***************************************************************************)
(* Properties of filling a blank node                                      *)
(***************************************************************************)
BlanksIn(st) == {n \in NodesIn(st) : Len(st.nh[n].payload) = 0}

\* the nodes a one-byte ingestion added by filling a blank node: only
\* node_fill_blank gives a new node with a payload a weight
FilledNodes ==
    IF last.op = "ingest" /\ Len(last.input) = 1
    THEN {n \in NodesIn(graph) \ NodesIn(before) :
              Len(graph.nh[n].payload) > 0 /\ FPos(graph.nh[n].weight)}
    ELSE {}

\* Claim C26.  Filling a blank node leaves the blank node as it was: after
\* an ingestion of one byte that filled a blank node, every blank node of
\* the graph before is still in the graph, has no payload and has the
\* incoming and outgoing edges it had, and the filled node is a new node
\* with a copy of each of these edges.
C26_FillLeavesBlank ==
    \A filled_node \in FilledNodes : \A blank_node \in BlanksIn(before) :
        /\ blank_node \in NodesIn(graph)
        /\ Len(graph.nh[blank_node].payload) = 0
        /\ graph.nh[blank_node].incoming_edges = before.nh[blank_node].incoming_edges
        /\ graph.nh[blank_node].outgoing_edges = before.nh[blank_node].outgoing_edges
        /\ \A e \in ListedIn(before.nh[blank_node].incoming_edges) :
               CopyOf(e, before.eh[e].from_node, filled_node)
        /\ \A e \in ListedIn(before.nh[blank_node].outgoing_edges) :
               CopyOf(e, filled_node, before.eh[e].to_node)

C26_Filled == FilledNodes # {}

(***************************************************************************)
(* Properties of the edge lists                                            *)
(***************************************************************************)
\* Claim C27.  After any sequence of operations, allocation failures
\* included, every edge of the graph's edge list is in the outgoing list of
\* its source node and in the incoming list of its target node, and every
\* edge of a node's outgoing or incoming list is a live edge of the graph's
\* edge list.
C27_EdgeListsConsistent ==
    /\ \A e \in EdgesIn(graph) :
           /\ graph.eh[e].live
           /\ e \in ListedIn(graph.nh[graph.eh[e].from_node].outgoing_edges)
           /\ e \in ListedIn(graph.nh[graph.eh[e].to_node].incoming_edges)
    /\ \A n \in NodesIn(graph) :
           \A e \in ListedIn(graph.nh[n].outgoing_edges)
                        \cup ListedIn(graph.nh[n].incoming_edges) :
               /\ graph.eh[e].live
               /\ e \in EdgesIn(graph)

(***************************************************************************)
(* Properties of saving                                                    *)
(***************************************************************************)
\* what melvin_m_universal_input_read and melvin_m_universal_output_read
\* give with a buffer large enough, for a header h
InputRead(buf, h) == BufBytes(buf, h.universal_input_size)

OutputRead(buf, h) == BufBytes(buf, h.universal_output_size)

\* Claim C28.  melvin_m_save leaves the universal buffers as the client sees
\* them: the sizes melvin_m_universal_input_size and
\* melvin_m_universal_output_size return and the bytes the two reads return
\* are the same after the save as before it.
C28_SaveKeepsBuffers ==
    [][last'.op = "save" =>
           /\ header'.universal_input_size = header.universal_input_size
           /\ header'.universal_output_size = header.universal_output_size
           /\ InputRead(universal_input', header') = InputRead(universal_input, header)
           /\ OutputRead(universal_output', header') = OutputRead(universal_output, header)]_vars

(***************************************************************************)
(* Properties of the rolling window                                        *)
(***************************************************************************)
\* the relative weight changes a node has recorded fill its window
WindowFull(st, n) ==
    \A i \in 1 .. st.nh[n].weight_change_capacity :
        FPos(st.nh[n].recent_weight_changes[i])

\* node_update_weight_local recorded a change for n in the step
Recorded(n) ==
    \/ graph'.nh[n].recent_weight_changes # graph.nh[n].recent_weight_changes
    \/ graph'.nh[n].weight_change_index # graph.nh[n].weight_change_index

\* Claim C29.  The rolling window adapts: when a node whose window is full
\* of recorded changes has its weight updated again, its window length is
\* re-chosen from those changes as 4, 8 or 16 (the shorter the more volatile
\* the changes), and no window has any other length.
C29_WindowAdapts ==
    [][\A n \in NodesIn(graph) :
           /\ graph'.nh[n].weight_change_capacity \in {4, 8, 16}
           /\ (last'.op = "propagate" /\ WindowFull(graph, n) /\ Recorded(n)) =>
                  graph'.nh[n].weight_change_capacity
                      = window_size_for(graph.nh[n].recent_weight_changes)]_vars

====
